---- MODULE Spec2Model ----
(***************************************************************************)
(* The FastAPI template: the items endpoints (list with pagination,        *)
(* filtering and sorting; create, read through the response cache, update  *)
(* and delete of single items), the generic filter, and the chat endpoint  *)
(* with its connection manager, the files endpoints (upload, download,     *)
(* delete) and the pages router (home page and contact form).              *)
(***************************************************************************)
EXTENDS Integers, Sequences, FiniteSets, TLC

VARIABLES
    items,      \* the rows of table "items" (a set of records, ids unique)
    next_id,    \* the primary-key sequence of the table
    now,        \* the latest timestamp the database clock has handed out
    req,        \* the list request in flight (its position inside paginate)
    resp,       \* the response of the operation that completed last
    cache,      \* the response cache of read_item: item id -> cached item
    made,       \* history: for each id, the input it was created with and
                \* whether it has been updated or deleted since
    active_connections,  \* manager.active_connections: a list of websockets
    chat,       \* for each websocket, where its chat handler stands
    peer,       \* for each websocket, the state of its client
    inbox,      \* for each websocket whose client is connected, the text
                \* messages the client has received, in the order of
                \* their arrival, each as <<sender, number>>
    disk,       \* the files on disk: location -> content (None: no file)
    up,         \* for each upload request, where upload_file stands
    file_resp,  \* the response of download_file or delete_file sent last
    page_resp,  \* the response of the pages router sent last
    deleting,   \* for each session, where its ItemService.delete stands
    walk        \* a client reading the list page after page

\* the chat endpoint
chat_vars == <<active_connections, chat, peer, inbox>>

\* the items endpoints
item_vars == <<items, next_id, now, req, resp, cache, made>>

\* the files endpoints
file_vars == <<disk, up, file_resp>>

\* everything the items endpoints leave alone
beside_items == <<chat_vars, file_vars, page_resp, deleting, walk>>

\* everything the chat endpoint leaves alone
beside_chat == <<item_vars, file_vars, page_resp, deleting, walk>>

\* everything the files endpoints leave alone
beside_files == <<item_vars, chat_vars, page_resp, deleting, walk>>

vars ==
    <<items, next_id, now, req, resp, cache, made, active_connections, chat, peer,
      inbox, disk, up, file_resp, page_resp, deleting, walk>>

----------------------------------------------------------------------------
(* Bounds of the model.                                                    *)

\* rows ever created (ids 1..MaxItems)
MaxItems == 2

\* largest page number a request asks for
MaxPage == 3

\* largest total handed to PagedResponse.create on its own
MaxTotal == 6

\* latest timestamp the database clock hands out to an update
MaxClock == 2

\* websockets that ever connect to the chat endpoint
MaxSockets == 3

\* text messages one client sends
MaxTexts == 1

\* upload requests ever made
MaxUploads == 3

\* database sessions that ever run ItemService.delete side by side
MaxSessions == 2

\* rows of the table when the home page is asked for
MaxHomeItems == 6

----------------------------------------------------------------------------
(* Optional values: None is the empty tuple, a present value a 1-tuple.    *)

None == <<>>

Some(x) == <<x>>

----------------------------------------------------------------------------
(* Text.  A string is a sequence of one-character strings.                 *)

\* code point of a character, the order the database compares text by
Code(c) ==
    CASE c = "%" -> 37
      [] c = "A" -> 65
      [] c = "B" -> 66
      [] c = "\\" -> 92
      [] c = "_" -> 95
      [] c = "a" -> 97
      [] c = "b" -> 98

LowerChar(c) ==
    CASE c = "A" -> "a"
      [] c = "B" -> "b"
      [] OTHER -> c

Lower(s) == [i \in 1..Len(s) |-> LowerChar(s[i])]

\* s contains t as a contiguous substring
Contains(s, t) ==
    \E k \in 0..(Len(s) - Len(t)) :
        \A i \in 1..Len(t) : s[k + i] = t[i]

\* SQL LIKE: % matches any run of characters, _ any one character,
\* backslash makes the next pattern character literal
RECURSIVE Like(_, _)
Like(s, p) ==
    IF p = <<>> THEN s = <<>>
    ELSE IF p[1] = "%" THEN
        Like(s, Tail(p)) \/ (s # <<>> /\ Like(Tail(s), p))
    ELSE IF p[1] = "\\" THEN
        /\ Len(p) >= 2
        /\ s # <<>>
        /\ s[1] = p[2]
        /\ Like(Tail(s), Tail(Tail(p)))
    ELSE IF p[1] = "_" THEN
        s # <<>> /\ Like(Tail(s), Tail(p))
    ELSE
        s # <<>> /\ s[1] = p[1] /\ Like(Tail(s), Tail(p))

\* column.ilike(pattern): LIKE without regard to case
ILike(s, p) == Like(Lower(s), Lower(p))

\* strict lexicographic order of two strings by code point
RECURSIVE StrLt(_, _)
StrLt(s, t) ==
    IF t = <<>> THEN FALSE
    ELSE IF s = <<>> THEN TRUE
    ELSE IF Code(s[1]) # Code(t[1]) THEN Code(s[1]) < Code(t[1])
    ELSE StrLt(Tail(s), Tail(t))

----------------------------------------------------------------------------
(* The Item entity and the query builder.                                  *)

\* mapped columns of class Item (id, title, description, is_active) and of
\* TimestampMixin (created_at, updated_at)
Columns == {"id", "title", "description", "is_active", "created_at", "updated_at"}

\* names for which hasattr(Item, name) is true: the mapped columns and the
\* other attributes the class body defines
ModelAttrs == Columns \cup {"__tablename__", "__repr__"}

hasattr(name) == name \in ModelAttrs

\* select(ItemModel): no predicate, no ordering, no window
select == [where |-> <<>>, order_by |-> <<>>, offset |-> None, limit |-> None]

\* query.filter(column.ilike(pattern))
FilterILike(query, col, pattern) ==
    [query EXCEPT !.where =
        Append(@, [kind |-> "ilike", col |-> col, pattern |-> pattern, value |-> FALSE])]

\* query.filter(column == value) for a boolean column
FilterEq(query, col, value) ==
    [query EXCEPT !.where =
        Append(@, [kind |-> "eq", col |-> col, pattern |-> <<>>, value |-> value])]

\* query.order_by(asc(field)) / query.order_by(desc(field))
OrderBy(query, col, dir) ==
    [query EXCEPT !.order_by = Append(@, [col |-> col, dir |-> dir])]

\* asc(field) / desc(field) accept a column expression only: for any other
\* attribute value (a method, a plain string) building or compiling the
\* ORDER BY raises
OrderByRaises(query) ==
    \E i \in 1..Len(query.order_by) : query.order_by[i].col \notin Columns

\* query.filter(flag) for a Python boolean: WHERE true / WHERE false
FilterConst(query, flag) ==
    [query EXCEPT !.where =
        Append(@, [kind |-> "const", col |-> "", pattern |-> <<>>, value |-> flag])]

\* one predicate of the WHERE clause, evaluated on a row
Matches(pred, row) ==
    IF pred.kind = "ilike" THEN ILike(row[pred.col], pred.pattern)
    ELSE IF pred.kind = "const" THEN pred.value
    ELSE row[pred.col] = pred.value

\* rows of the table that satisfy every predicate of the query
Matching(query, table) ==
    {r \in table : \A i \in 1..Len(query.where) : Matches(query.where[i], r)}

\* strict order of two rows on one column, as the database compares them
\* (false < true; text by code point; NULL after every non-NULL value)
KeyLt(col, a, b) ==
    CASE col = "title" -> StrLt(a.title, b.title)
      [] col = "description" ->
            /\ a.description # None
            /\ (b.description = None \/ StrLt(a.description[1], b.description[1]))
      [] col = "is_active" -> (~a.is_active) /\ b.is_active
      [] OTHER -> a[col] < b[col]

\* a must come strictly before b under one ORDER BY clause
ClauseBefore(clause, a, b) ==
    IF clause.dir = "desc" THEN KeyLt(clause.col, b, a) ELSE KeyLt(clause.col, a, b)

\* a must come strictly before b under the ORDER BY list (first clause that
\* tells them apart decides)
Before(order_by, a, b) ==
    \E k \in 1..Len(order_by) :
        /\ ClauseBefore(order_by[k], a, b)
        /\ \A m \in 1..(k - 1) :
              ~ClauseBefore(order_by[m], a, b) /\ ~ClauseBefore(order_by[m], b, a)

\* all arrangements of a finite set in a sequence
Arrangements(S) ==
    {s \in [1..Cardinality(S) -> S] :
        \A i, j \in 1..Cardinality(S) : i # j => s[i] # s[j]}

\* the row sequences the database may produce for the query before the
\* window is cut: any arrangement of the matching rows that respects ORDER
\* BY (rows that ORDER BY does not tell apart, and all rows when there is no
\* ORDER BY, come in an order the engine chooses)
ResultSeqs(query, table) ==
    {s \in Arrangements(Matching(query, table)) :
        \A i, j \in 1..Len(s) : i < j => ~Before(query.order_by, s[j], s[i])}

Min(a, b) == IF a <= b THEN a ELSE b

Max(a, b) == IF a >= b THEN a ELSE b

\* OFFSET / LIMIT applied to a row sequence
Window(query, s) ==
    LET off == IF query.offset = None THEN 0 ELSE query.offset[1]
        last == IF query.limit = None THEN Len(s)
                ELSE Min(Len(s), off + query.limit[1])
    IN  SubSeq(s, off + 1, last)

\* select(func.count()).select_from(query.subquery()): number of rows the
\* query yields
CountRows(query, table) ==
    LET n == Cardinality(Matching(query, table))
        off == IF query.offset = None THEN 0 ELSE query.offset[1]
        rest == Max(0, n - off)
    IN  IF query.limit = None THEN rest ELSE Min(rest, query.limit[1])

----------------------------------------------------------------------------
(* Pagination, filter and sort parameters.                                 *)

\* le=100 of page_size
PageSizeMax == 100

\* query-string checks without the upper bound on page_size
QueryParamsValid_no_max(page, page_size) == page >= 1 /\ page_size >= 1

\* Query(ge=1) on page, Query(ge=1, le=100) on page_size: the checks the
\* framework makes on the query string before read_items runs
QueryParamsValid(page, page_size) ==
    page >= 1 /\ page_size >= 1 /\ page_size <= PageSizeMax

\* Field(ge=1) on page, Field(ge=1, le=100) on page_size: the checks made
\* when a PaginationParams is constructed
PaginationParamsValid(page, page_size) ==
    page >= 1 /\ page_size >= 1 /\ page_size <= PageSizeMax

PaginationParams(page, page_size) == [page |-> page, page_size |-> page_size]

\* skip that starts one page too far
skip_next_page(pagination) == pagination.page * pagination.page_size

\* PaginationParams.skip
skip(pagination) == (pagination.page - 1) * pagination.page_size

\* limit that fetches one row more than the page size
limit_plus_one(pagination) == pagination.page_size + 1

\* PaginationParams.limit
limit(pagination) == pagination.page_size

\* PagedResponse.create that rounds the page count down
PagedResponse_create_floor(its, total, pagination) ==
    [items |-> its,
     total |-> total,
     page |-> pagination.page,
     page_size |-> pagination.page_size,
     total_pages |-> total \div pagination.page_size]

\* PagedResponse.create
PagedResponse_create(its, total, pagination) ==
    [items |-> its,
     total |-> total,
     page |-> pagination.page,
     page_size |-> pagination.page_size,
     total_pages |-> (total + pagination.page_size - 1) \div pagination.page_size]

\* Item.__tablename__
tablename == <<"i", "t", "e", "m", "s">>

\* getattr(Item, name) == value for an attribute that is not a column: a
\* Python comparison, true only for __tablename__ and its own value (a
\* method equals no filter value)
AttrEquals(name, value) == name = "__tablename__" /\ value = tablename

\* FilterParams.apply on the Item model: held is self.__dict__, a sequence
\* of fields [name, value] in insertion order.  A field whose value is not
\* None and for which hasattr(Item, name) holds adds the filter
\* getattr(Item, name) == value: a column comparison for a column, the
\* outcome of a Python comparison for any other attribute
RECURSIVE FilterParams_apply(_, _)
FilterParams_apply(held, query) ==
    IF held = <<>> THEN query
    ELSE LET field == Head(held)
             q1 == IF field.value # None /\ hasattr(field.name)
                   THEN IF field.name \in Columns
                        THEN FilterEq(query, field.name, field.value[1])
                        ELSE FilterConst(query, AttrEquals(field.name, field.value[1]))
                   ELSE query
         IN  FilterParams_apply(Tail(held), q1)

\* ItemFilterParams.__init__
ItemFilterParams(title, is_active) == [title |-> title, is_active |-> is_active]

\* ItemFilterParams.apply that tests is_active for truth, not for None
ItemFilterParams_apply_truthy(filters, query) ==
    LET q1 == IF filters.title # None
              THEN FilterILike(query, "title", <<"%">> \o filters.title[1] \o <<"%">>)
              ELSE query
    IN  IF filters.is_active # None /\ filters.is_active[1]
        THEN FilterEq(q1, "is_active", filters.is_active[1])
        ELSE q1

\* ItemFilterParams.apply
ItemFilterParams_apply(filters, query) ==
    LET q1 == IF filters.title # None
              THEN FilterILike(query, "title", <<"%">> \o filters.title[1] \o <<"%">>)
              ELSE query
    IN  IF filters.is_active # None
        THEN FilterEq(q1, "is_active", filters.is_active[1])
        ELSE q1

\* SortParams.__init__: kw holds the keyword arguments the caller passed
SortParams(kw) ==
    [sort_by |-> IF kw.has_sort_by THEN kw.sort_by ELSE None,
     sort_order |-> IF kw.has_sort_order THEN kw.sort_order ELSE "asc"]

\* ItemSortParams.__init__ that leaves the order default to the base class
ItemSortParams_default_asc(kw) ==
    SortParams([has_sort_by |-> TRUE,
                sort_by |-> IF kw.has_sort_by THEN kw.sort_by ELSE Some("created_at"),
                has_sort_order |-> kw.has_sort_order,
                sort_order |-> kw.sort_order])

\* ItemSortParams.__init__
ItemSortParams(kw) ==
    SortParams([has_sort_by |-> TRUE,
                sort_by |-> IF kw.has_sort_by THEN kw.sort_by ELSE Some("created_at"),
                has_sort_order |-> TRUE,
                sort_order |-> IF kw.has_sort_order THEN kw.sort_order ELSE "desc"])

\* SortParams.apply that orders ascending whatever the requested order
SortParams_apply_always_asc(sort, query) ==
    IF sort.sort_by # None /\ sort.sort_by[1] # "" /\ hasattr(sort.sort_by[1])
    THEN OrderBy(query, sort.sort_by[1], "asc")
    ELSE query

\* SortParams.apply
SortParams_apply(sort, query) ==
    IF sort.sort_by # None /\ sort.sort_by[1] # "" /\ hasattr(sort.sort_by[1])
    THEN IF sort.sort_order = "desc"
         THEN OrderBy(query, sort.sort_by[1], "desc")
         ELSE OrderBy(query, sort.sort_by[1], "asc")
    ELSE query

\* get_multi that orders by the entity default when no sort is given
get_multi_query_default_sort(filters, sort) ==
    LET q1 == IF filters # None THEN ItemFilterParams_apply(filters[1], select) ELSE select
    IN  IF sort # None THEN SortParams_apply(sort[1], q1)
        ELSE OrderBy(q1, "created_at", "desc")

\* the statement ItemService.get_multi builds before it reads: filters,
\* then sort, each only when given (None stands for an omitted argument)
get_multi_query(filters, sort) ==
    LET q1 == IF filters # None THEN ItemFilterParams_apply(filters[1], select) ELSE select
    IN  IF sort # None THEN SortParams_apply(sort[1], q1) ELSE q1

\* query.offset(pagination.skip).limit(pagination.limit) of paginate
paginated_query(query, pagination) ==
    [query EXCEPT !.offset = Some(skip(pagination)), !.limit = Some(limit(pagination))]

\* a count taken from the windowed statement instead
paginate_count_windowed(query, pagination, table) ==
    CountRows(paginated_query(query, pagination), table)

\* the first read of paginate: the count of the statement as get_multi
\* built it, before the window is applied
paginate_count(query, pagination, table) == CountRows(query, table)

----------------------------------------------------------------------------
(* Request bodies and the schemas ItemCreate and ItemUpdate.               *)

\* max_length=255 of title
TitleMaxLength == 255

\* a field the JSON body does not have
Unset == [set |-> FALSE, value |-> None]

\* a field the JSON body has; value None is JSON null
Given(v) == [set |-> TRUE, value |-> v]

\* a title of n characters
TitleOfLength(n) == [i \in 1..n |-> "a"]

\* ItemCreate: title is required, a string of 1..255 characters;
\* description is an optional string; is_active a boolean
ItemCreateValid(body) ==
    /\ body.title.set
    /\ body.title.value # None
    /\ Len(body.title.value[1]) >= 1
    /\ Len(body.title.value[1]) <= TitleMaxLength
    /\ body.is_active.set => body.is_active.value # None

\* the validated ItemCreate of a body, defaults filled in
ItemCreate(body) ==
    [title |-> body.title.value[1],
     description |-> IF body.description.set THEN body.description.value ELSE None,
     is_active |-> IF body.is_active.set THEN body.is_active.value[1] ELSE TRUE]

\* ItemUpdate: every field is optional and may be null; a title that is a
\* string has 1..255 characters
ItemUpdateValid(body) ==
    (body.title.set /\ body.title.value # None) =>
        /\ Len(body.title.value[1]) >= 1
        /\ Len(body.title.value[1]) <= TitleMaxLength

\* the fields of ItemUpdate
UpdateFields == {"title", "description", "is_active"}

\* model_dump() without exclude_unset: every field, unset ones as None
model_dump_all(body) == UpdateFields

\* item_in.model_dump(exclude_unset=True): the fields the body has, a null
\* among them
model_dump(body) == {f \in UpdateFields : body[f].set}

\* the columns of table items declared nullable=False that an update can set
NotNullColumns == {"title", "is_active"}

----------------------------------------------------------------------------
(* Inputs the operations are called with.                                  *)

\* ItemCreate payloads (all pass the schema: title of 1..255 characters)
ItemInputs ==
    {[title |-> <<"A", "b">>, description |-> None, is_active |-> TRUE],
     [title |-> <<"a">>, description |-> Some(<<"b">>), is_active |-> FALSE],
     [title |-> <<"b">>, description |-> Some(<<"a">>), is_active |-> TRUE]}

\* JSON bodies of POST /items/: valid ones, and titles that are missing,
\* null, empty, or of 255 and 256 characters
CreateBodies ==
    {[title |-> t, description |-> da[1], is_active |-> da[2]] :
        t \in {Unset, Given(None), Given(Some(<<>>)), Given(Some(<<"a">>))},
        da \in {<<Unset, Unset>>, <<Given(Some(<<"b">>)), Given(Some(FALSE))>>}}
    \cup
    {[title |-> Given(Some(TitleOfLength(n))), description |-> Unset, is_active |-> Unset] :
        n \in {TitleMaxLength, TitleMaxLength + 1}}
    \cup
    {[title |-> Given(Some(<<"a">>)), description |-> Given(None),
      is_active |-> Given(None)]}

\* a body with no field
EmptyBody == [title |-> Unset, description |-> Unset, is_active |-> Unset]

\* JSON bodies of PUT /items/{item_id}: no field, one field, or two, with
\* values that are strings, booleans or null
UpdateBodies ==
    {EmptyBody}
    \cup {[EmptyBody EXCEPT !.title = Given(t)] :
            t \in {None, Some(<<>>), Some(<<"b">>), Some(TitleOfLength(TitleMaxLength + 1))}}
    \cup {[EmptyBody EXCEPT !.description = Given(None)]}
    \cup {[EmptyBody EXCEPT !.is_active = Given(a)] : a \in {None, Some(FALSE)}}
    \cup {[EmptyBody EXCEPT !.title = Given(Some(<<"b">>)), !.is_active = Given(Some(FALSE))]}

\* a field of a filter object
Held(name, value) == [name |-> name, value |-> value]

\* the fields FilterParams objects hold: none, columns of Item with and
\* without a value, a name Item does not have, and names of attributes of
\* Item that are not columns
HeldInputs ==
    {<<>>}
    \cup {<<Held("title", t)>> : t \in {None, Some(<<"a">>), Some(<<"A", "b">>)}}
    \cup {<<Held("is_active", a), Held("title", t)>> :
            a \in {None, Some(FALSE)}, t \in {None, Some(<<"a">>)}}
    \cup {<<Held("titel", Some(<<"a">>)), Held("is_active", a)>> :
            a \in {None, Some(TRUE)}}
    \cup {<<Held("__tablename__", v)>> : v \in {None, Some(<<"a">>), Some(tablename)}}
    \cup {<<Held("__repr__", Some(<<"a">>))>>}

\* ids a request names: every id the sequence can hand out
ItemIds == 1..MaxItems

Pages == 0..MaxPage

PageSizes == {0, 1, 2, PageSizeMax, PageSizeMax + 1}

TitleFilters == {None, Some(<<>>), Some(<<"a">>), Some(<<"B">>), Some(<<"_">>)}

ActiveFilters == {None, Some(TRUE), Some(FALSE)}

SortBys == Columns \cup {"", "bogus", "__repr__"}

SortOrders == {"asc", "desc"}

\* keyword arguments of a sort constructor: given sort_by / sort_order
SortKw(has_sort_by, sort_by, has_sort_order, sort_order) ==
    [has_sort_by |-> has_sort_by, sort_by |-> sort_by,
     has_sort_order |-> has_sort_order, sort_order |-> sort_order]

\* the query string of GET /items/ when no parameter is given: the defaults
\* of read_items
DefaultArgs ==
    [has_pagination |-> TRUE, page |-> 1, page_size |-> 20,
     has_filters |-> TRUE, title |-> None, is_active |-> None,
     has_sort |-> TRUE, cls |-> "ItemSortParams",
     kw |-> SortKw(TRUE, Some("created_at"), TRUE, "desc")]

\* query strings of GET /items/ that vary the page window: every page and
\* page size, sorted by the default column or not at all
PagingInputs ==
    {[DefaultArgs EXCEPT !.page = p, !.page_size = ps, !.kw.sort_by = Some(sb)] :
        p \in Pages, ps \in PageSizes, sb \in {"created_at", ""}}

\* query strings that vary the filters, on an unpaged and a paged window
FilterInputs ==
    {[DefaultArgs EXCEPT !.page = pp[1], !.page_size = pp[2], !.title = t,
                         !.is_active = a] :
        pp \in {<<1, 20>>, <<2, 1>>}, t \in TitleFilters, a \in ActiveFilters}

\* query strings that vary the sort, on an unpaged and a paged window
SortInputs ==
    {[DefaultArgs EXCEPT !.page = pp[1], !.page_size = pp[2],
                         !.kw.sort_by = Some(sb), !.kw.sort_order = so] :
        pp \in {<<1, 20>>, <<2, 1>>}, sb \in SortBys, so \in SortOrders}

ReadItemsInputs == PagingInputs \cup FilterInputs \cup SortInputs

\* query strings of a client that reads the whole list page by page: the
\* page size, the filters and the sort stay as they are, the page advances
WalkInputs ==
    {[DefaultArgs EXCEPT !.page = 1, !.page_size = ps, !.title = t,
                         !.kw.sort_by = Some(sb), !.kw.sort_order = so] :
        ps \in {1, 2}, t \in {None, Some(<<"b">>)},
        sb \in {"id", "title", "created_at", "is_active", ""}, so \in SortOrders}

\* no walk under way: args is the query string of the walk, next the page
\* it asks for next, seen the items of the pages it has read, in order
NoWalk == [pc |-> "idle", args |-> DefaultArgs, next |-> 0, seen |-> <<>>]

\* sort objects handed to ItemService.get_multi on their own: either class,
\* built with any subset of its keyword arguments
SortOnlyInputs ==
    {[DefaultArgs EXCEPT !.has_pagination = FALSE, !.has_filters = FALSE,
                         !.cls = c, !.kw = SortKw(hb, IF hb THEN sb ELSE None,
                                                 ho, IF ho THEN so ELSE "asc")] :
        c \in {"SortParams", "ItemSortParams"}, hb \in BOOLEAN,
        sb \in {None, Some("title"), Some("created_at")},
        ho \in BOOLEAN, so \in SortOrders}

\* calls of ItemService.get_multi with each argument given or omitted
ComposedInputs ==
    {[DefaultArgs EXCEPT !.has_pagination = pg[1], !.page = pg[2], !.page_size = pg[3],
                         !.has_filters = fl[1], !.title = fl[2], !.is_active = fl[3],
                         !.has_sort = st[1], !.cls = "SortParams",
                         !.kw = SortKw(TRUE, Some("title"), TRUE, st[2])] :
        pg \in {<<FALSE, 1, 20>>, <<TRUE, 1, 1>>, <<TRUE, 2, 1>>},
        fl \in {<<FALSE, None, None>>, <<TRUE, None, None>>,
                <<TRUE, Some(<<"a">>), None>>, <<TRUE, None, Some(FALSE)>>},
        st \in {<<FALSE, "asc">>, <<TRUE, "asc">>, <<TRUE, "desc">>}}

GetMultiInputs == SortOnlyInputs \cup ComposedInputs

----------------------------------------------------------------------------
(* The chat endpoint: ConnectionManager and websocket_endpoint.            *)

\* the websockets, in the order of their ids
Sockets == 1..MaxSockets

\* a handler that has not been started: pc is its position in
\* websocket_endpoint, idx the position of the iterator of the broadcast it
\* is in, texts the number of messages it has received; at_start and
\* sent_to record, for the broadcast of a text message, the list as it was
\* when the message was received and the websockets send_text has returned
\* for
NewHandler ==
    [pc |-> "new", idx |-> 0, texts |-> 0, at_start |-> <<>>, sent_to |-> <<>>]

\* websocket is an element of the list
InList(list, websocket) == \E i \in 1..Len(list) : list[i] = websocket

\* an append that puts the websocket at the front of the list
list_prepend(list, websocket) == <<websocket>> \o list

\* self.active_connections.append(websocket)
list_append(list, websocket) == Append(list, websocket)

\* self.active_connections.remove(websocket): the list without the first
\* occurrence of the websocket (for a websocket that is in the list)
list_remove(list, websocket) ==
    LET i == CHOOSE k \in 1..Len(list) :
                 list[k] = websocket /\ \A j \in 1..(k - 1) : list[j] # websocket
    IN  SubSeq(list, 1, i - 1) \o SubSeq(list, i + 1, Len(list))

\* the outcomes of connection.send_text(message): for a client that is
\* connected the frame is sent; for a client that has gone, or a websocket
\* whose handler has ended, the call returns all the same, or raises
\* WebSocketDisconnect, or raises another error
SendOutcomes(client) ==
    IF client = "open" THEN {"sent"}
    ELSE {"sent", "WebSocketDisconnect", "error"}

\* the state of a handler when its broadcast starts, at position pc
StartBroadcast(h, pc, list, recorded) ==
    [h EXCEPT !.pc = pc, !.idx = 0,
              !.at_start = IF recorded THEN list ELSE <<>>,
              !.sent_to = <<>>]

\* the state of a handler that has returned or died
Ended(h) == [h EXCEPT !.pc = "done", !.idx = 0, !.at_start = <<>>, !.sent_to = <<>>]

----------------------------------------------------------------------------
(* The files endpoints: paths below and beside UPLOAD_DIR.                 *)

\* the upload requests, in the order of their arrival
Uploads == 1..MaxUploads

\* settings.MAX_UPLOAD_SIZE: 10MB, in bytes
MAX_UPLOAD_SIZE == 10485760

\* A filename is a record: up counts its leading "../" components, stem and
\* ext are what os.path.splitext tells apart in its last component once the
\* suffixes "_N" at the end of the stem, listed in sfx, are taken off.
FileName(up_levels, stem, sfx, ext) ==
    [up |-> up_levels, stem |-> stem, sfx |-> sfx, ext |-> ext]

\* the empty filename
NoFileName == FileName(0, "", <<>>, "")

\* the filename ".."
DotDot == FileName(1, "", <<>>, "")

\* name, ext = os.path.splitext(filename); f"{name}_{counter}{ext}"
Suffixed(filename, counter) == [filename EXCEPT !.sfx = Append(@, counter)]

\* UPLOAD_DIR / filename: a path is the directory it leads to, as the
\* number of levels above UPLOAD_DIR, and the last component in it
PathOf(filename) ==
    [above |-> filename.up,
     last |-> [stem |-> filename.stem, sfx |-> filename.sfx, ext |-> filename.ext]]

\* file_path.name: the last component of the path, as a filename
PathName(file_path) ==
    FileName(0, file_path.last.stem, file_path.last.sfx, file_path.last.ext)

\* file_path.resolve().relative_to(UPLOAD_DIR.resolve()) does not raise
RelativeToUploadDir(file_path) == file_path.above = 0

\* the path is that of a directory: UPLOAD_DIR itself or one above it
IsDirectory(file_path) == file_path.last.stem = ""

\* the suffix lists the uploads of the model can produce
Suffixes ==
    {<<>>} \cup {<<n>> : n \in Uploads} \cup {<<m, n>> : m, n \in Uploads}

\* the locations a file of the model can be at
Locations ==
    {PathOf(FileName(u, "a", sfx, ".txt")) : u \in {0, 1}, sfx \in Suffixes}

\* a body as the client sends it: size is what file.file.tell() reports at
\* the end of the file, bytes what file.read() returns (the model keeps
\* none of the bytes of an oversized body)
Body(bytes) == [bytes |-> bytes, size |-> Len(bytes)]

Oversized == [bytes |-> <<>>, size |-> MAX_UPLOAD_SIZE + 1]

\* the bodies clients upload
UploadBodies == {Body(<<1>>), Body(<<2, 2>>), Oversized}

\* the filenames clients upload under
UploadNames ==
    {FileName(0, "a", <<>>, ".txt"), FileName(0, "a", <<1>>, ".txt"),
     FileName(1, "a", <<>>, ".txt"), NoFileName}

\* the filenames of download and delete requests: one path segment each
RouteNames ==
    {FileName(0, "a", <<>>, ".txt"), FileName(0, "a", <<1>>, ".txt"), DotDot}

\* file_path.exists()
Exists(files, file_path) ==
    IsDirectory(file_path) \/ (file_path \in Locations /\ files[file_path] # None)

\* file_path.is_file()
IsFile(files, file_path) ==
    ~IsDirectory(file_path) /\ file_path \in Locations /\ files[file_path] # None

\* the loop of upload_file that looks for a free path, from the candidate
\* with suffix counter on
RECURSIVE FreePathFrom(_, _, _)
FreePathFrom(files, filename, counter) ==
    IF Exists(files, PathOf(Suffixed(filename, counter)))
    THEN FreePathFrom(files, filename, counter + 1)
    ELSE PathOf(Suffixed(filename, counter))

\* the path upload_file stores under: that of the filename if no file is
\* there, else the first free one with a number suffix
FreePath(files, filename) ==
    IF Exists(files, PathOf(filename)) THEN FreePathFrom(files, filename, 1)
    ELSE PathOf(filename)

\* f.write(content) on a file opened at position 0: the bytes replace the
\* start of what the file holds
Overwrite(old, bytes) ==
    IF Len(bytes) >= Len(old) THEN bytes
    ELSE bytes \o SubSeq(old, Len(bytes) + 1, Len(old))

\* an upload request that has not arrived: pc is its position in
\* upload_file, sent the filename and body of the request, path the path
\* chosen, unlinked whether the file it holds open has been deleted,
\* status and filename its response, live whether the file it stored has
\* not been deleted since
NewUpload ==
    [pc |-> "new", sent |-> NoFileName, body |-> Body(<<>>),
     path |-> PathOf(NoFileName),
     unlinked |-> FALSE, status |-> 0, filename |-> NoFileName, live |-> FALSE]

\* shape of the responses of download_file and delete_file
NoFileResponse ==
    [op |-> "none", filename |-> NoFileName, status |-> 0, content |-> <<>>,
     touched |-> None]

----------------------------------------------------------------------------
(* The pages router: ContactForm and the home page.                        *)

NameMaxLength == 100

EmailMaxLength == 255

MessageMaxLength == 1000

\* items[:5] of index
HomeItems == 5

\* [a-zA-Z]
Letters ==
    {"a", "b", "c", "d", "e", "f", "g", "h", "i", "j", "k", "l", "m",
     "n", "o", "p", "q", "r", "s", "t", "u", "v", "w", "x", "y", "z",
     "A", "B", "C", "D", "E", "F", "G", "H", "I", "J", "K", "L", "M",
     "N", "O", "P", "Q", "R", "S", "T", "U", "V", "W", "X", "Y", "Z"}

\* [0-9]
Digits == {"0", "1", "2", "3", "4", "5", "6", "7", "8", "9"}

\* [a-zA-Z0-9._%+-]
LocalPartChars == Letters \cup Digits \cup {".", "_", "%", "+", "-"}

\* [a-zA-Z0-9.-]
DomainChars == Letters \cup Digits \cup {".", "-"}

\* every character of s from position i to position j is in class
AllIn(s, i, j, class) == \A k \in i..j : s[k] \in class

\* s is local@domain.tld from its first to its last character
EmailShape(s) ==
    \E at \in 2..Len(s) :
        /\ s[at] = "@"
        /\ AllIn(s, 1, at - 1, LocalPartChars)
        /\ \E dot \in (at + 2)..(Len(s) - 2) :
              /\ s[dot] = "."
              /\ AllIn(s, at + 1, dot - 1, DomainChars)
              /\ AllIn(s, dot + 1, Len(s), Letters)

\* re.match(pattern, v) for the pattern of validate_email: "^" is the start
\* of the string, "$" its end or the place before a newline that ends it
re_match(v) ==
    \/ EmailShape(v)
    \/ /\ Len(v) >= 1
       /\ v[Len(v)] = "\n"
       /\ EmailShape(SubSeq(v, 1, Len(v) - 1))

\* a validate_email that returns the value as it came
validate_email_as_given(v) == IF re_match(v) THEN Some(v) ELSE None

\* ContactForm.validate_email: the lower-cased value, None for ValueError
validate_email(v) == IF re_match(v) THEN Some(Lower(v)) ELSE None

\* the fields of ContactForm(name=..., email=..., message=...) that fail
\* validation; the validator of email runs for a value within max_length
ContactFormErrors(name, email, message) ==
    {f \in {"name"} : Len(name) < 1 \/ Len(name) > NameMaxLength}
    \cup {f \in {"email"} :
              Len(email) > EmailMaxLength \/ validate_email(email) = None}
    \cup {f \in {"message"} : Len(message) < 1 \/ Len(message) > MessageMaxLength}

\* the three values of a form
FormData(name, email, message) ==
    [name |-> name, email |-> email, message |-> message]

\* a string of n characters "a"
Chars(n) == [i \in 1..n |-> "a"]

\* the names and the messages posted
NameInputs == {Chars(0), Chars(1), Chars(NameMaxLength), Chars(NameMaxLength + 1)}

MessageInputs ==
    {Chars(0), Chars(1), Chars(MessageMaxLength), Chars(MessageMaxLength + 1)}

\* the emails posted: well-formed in lower and in upper case, at and over
\* the length limit, ending in a newline, and malformed in several ways
EmailInputs ==
    {<<"a", "@", "b", ".", "a", "b">>,
     <<"A", "@", "B", ".", "A", "b">>,
     <<"a", ".", "b", "+", "1", "@", "a", "-", "b", ".", "a", "b">>,
     Chars(EmailMaxLength - 5) \o <<"@", "b", ".", "a", "b">>,
     Chars(EmailMaxLength - 4) \o <<"@", "b", ".", "a", "b">>,
     <<"a", "@", "b", ".", "a", "b", "\n">>,
     <<" ", "a", "@", "b", ".", "a", "b">>,
     <<"a", "@", "b", ".", "a", "b", " ">>,
     <<"a", "@", "b", ".", "a">>,
     <<"a", "@", "b", ".", "a", "1">>,
     <<"a", "@", "b">>,
     <<"a", "@", ".", "a", "b">>,
     <<"@", "b", ".", "a", "b">>,
     <<"a", "b", ".", "a", "b">>,
     <<"a", "@", "a", "@", "b", ".", "a", "b">>,
     <<>>}

\* shape of the responses of the pages router; sent is the form as posted
NoPage ==
    [op |-> "none", status |-> 0, sent |-> FormData(<<>>, <<>>, <<>>),
     success |-> FALSE, submitted_data |-> None, errors |-> {},
     form_data |-> None, items |-> <<>>]

----------------------------------------------------------------------------
(* ItemService.delete in sessions that run side by side.                   *)

Sessions == 1..MaxSessions

\* a session that has not called delete: pc is its position in
\* ItemService.delete, item_id its argument, result what the call returned
\* or raised
NoDelete == [pc |-> "new", item_id |-> 0, result |-> "none"]

\* what the flush of db.delete(db_item) comes to when its DELETE matches no
\* row: the unit of work only warns, so delete returns True, or, where
\* warnings are errors or the mapper is versioned, StaleDataError is raised
NoRowMatched == {"True", "StaleDataError"}

----------------------------------------------------------------------------
(* State.                                                                  *)

\* no list request in flight
Idle ==
    [pc |-> "idle", op |-> "none", args |-> DefaultArgs,
     pagination |-> PaginationParams(1, 1),
     query |-> select, total |-> 0, dirty |-> FALSE]

\* shape of every response; op "none" when no response is waiting
NoResponse ==
    [op |-> "none", status |-> 0, args |-> DefaultArgs, query |-> select,
     items |-> <<>>, total |-> 0, page |-> 0, page_size |-> 0, total_pages |-> 0,
     offset |-> 0, limit |-> 0, db_reads |-> 0, dirty |-> FALSE,
     result_seq |-> <<>>,
     item_id |-> 0, body |-> EmptyBody, wrote |-> <<>>, cached |-> FALSE,
     held |-> <<>>]

\* history of an id the sequence has not handed out yet
NotMade == [input |-> None, touched |-> FALSE, deleted |-> FALSE]

\* history of an id whose item has been deleted
WasDeleted == [input |-> None, touched |-> FALSE, deleted |-> TRUE]

Init ==
    /\ items = {}
    /\ next_id = 1
    /\ now = 0
    /\ req = Idle
    /\ resp = NoResponse
    /\ cache = [i \in ItemIds |-> None]
    /\ made = [i \in ItemIds |-> NotMade]
    /\ active_connections = <<>>
    /\ chat = [w \in Sockets |-> NewHandler]
    /\ peer = [w \in Sockets |-> "none"]
    /\ inbox = [w \in Sockets |-> <<>>]
    /\ disk = [l \in Locations |-> None]
    /\ up = [u \in Uploads |-> NewUpload]
    /\ file_resp = NoFileResponse
    /\ page_resp = NoPage
    /\ deleting = [s \in Sessions |-> NoDelete]
    /\ walk = NoWalk

\* a write that leaves no trace on the request in flight
MarkClean(r) == r

\* a write committed while paginate is between its two reads
MarkDirty(r) == IF r.pc = "fetch" THEN [r EXCEPT !.dirty = TRUE] ELSE r

\* a handler runs only when the response before it has been handed over
Ready == resp.op = "none"

\* the response leaves the server
respond ==
    /\ resp.op # "none"
    /\ resp' = NoResponse
    /\ UNCHANGED <<items, next_id, now, req, cache, made>>
    /\ UNCHANGED beside_items

----------------------------------------------------------------------------
(* Writes: ItemService.create and ItemService.delete, one transaction each *)

\* server-side func.now() of TimestampMixin: the database clock, dt after
\* the latest timestamp handed out
func_now(clock, dt) == clock + dt

\* a row built from the title alone, the other columns at their defaults
ItemModel_title_only(item_in, id, stamp) ==
    [id |-> id,
     title |-> item_in.title,
     description |-> None,
     is_active |-> TRUE,
     created_at |-> stamp,
     updated_at |-> stamp]

\* the row ItemService.create inserts for payload item_in at time stamp
ItemModel(item_in, id, stamp) ==
    [id |-> id,
     title |-> item_in.title,
     description |-> item_in.description,
     is_active |-> item_in.is_active,
     created_at |-> stamp,
     updated_at |-> stamp]

\* ItemService.create behind create_item, for a payload of inputs: insert,
\* commit, refresh; the database stamps the row with its clock, which has
\* advanced by dt since the last write
create(inputs) ==
    /\ Ready
    /\ next_id <= MaxItems
    /\ \E item_in \in inputs, dt \in {0, 1} :
          LET db_item == ItemModel(item_in, next_id, func_now(now, dt))
          IN  /\ items' = items \cup {db_item}
              /\ resp' = [NoResponse EXCEPT !.op = "create_item", !.status = 201,
                                            !.items = <<db_item>>,
                                            !.item_id = db_item.id,
                                            !.wrote = <<Some(db_item.title)>>]
              /\ now' = func_now(now, dt)
              /\ made' = [made EXCEPT ![next_id] =
                              [input |-> Some(item_in), touched |-> FALSE,
                               deleted |-> FALSE]]
    /\ next_id' = next_id + 1
    /\ req' = MarkDirty(req)
    /\ cache' = cache
    /\ UNCHANGED beside_items

\* a delete that, for a known id, removes every row of the table
delete_all ==
    /\ Ready
    /\ \E item_id \in ItemIds :
          /\ \E r \in items : r.id = item_id
          /\ items' = {}
          /\ resp' = [NoResponse EXCEPT !.op = "delete_item", !.status = 204,
                                        !.item_id = item_id, !.db_reads = 1]
          /\ req' = MarkDirty(req)
          /\ made' = [made EXCEPT ![item_id] = WasDeleted]
    /\ UNCHANGED <<next_id, now, cache>>
    /\ UNCHANGED beside_items

\* ItemService.delete behind delete_item: 404 when the id is unknown
delete ==
    /\ Ready
    /\ \E item_id \in ItemIds :
          IF \E r \in items : r.id = item_id
          THEN /\ items' = {r \in items : r.id # item_id}
               /\ resp' = [NoResponse EXCEPT !.op = "delete_item", !.status = 204,
                                             !.item_id = item_id, !.db_reads = 1]
               /\ req' = MarkDirty(req)
               /\ made' = [made EXCEPT ![item_id] = WasDeleted]
          ELSE /\ resp' = [NoResponse EXCEPT !.op = "delete_item", !.status = 404,
                                             !.item_id = item_id, !.db_reads = 1]
               /\ UNCHANGED <<items, req, made>>
    /\ UNCHANGED <<next_id, now, cache>>
    /\ UNCHANGED beside_items

\* ItemService.delete of a session up to the await of db.delete: the select
\* has run; False for an id that has no row
delete_select ==
    /\ \E s \in Sessions, item_id \in ItemIds :
          /\ deleting[s].pc = "new"
          /\ \A t \in 1..(s - 1) : deleting[t].pc # "new"
          /\ deleting' = [deleting EXCEPT ![s] =
                  IF \E r \in items : r.id = item_id
                  THEN [pc |-> "loaded", item_id |-> item_id, result |-> "none"]
                  ELSE [pc |-> "done", item_id |-> item_id, result |-> "False"]]
    /\ UNCHANGED <<item_vars, chat_vars, file_vars, page_resp, walk>>

\* db.delete(db_item) and db.commit() of a session: the DELETE for the
\* primary key of the loaded row is flushed and committed
delete_commit ==
    /\ \E s \in Sessions :
          /\ deleting[s].pc = "loaded"
          /\ IF \E r \in items : r.id = deleting[s].item_id
             THEN /\ items' = {r \in items : r.id # deleting[s].item_id}
                  /\ deleting' = [deleting EXCEPT ![s].pc = "done",
                                                  ![s].result = "True"]
                  /\ req' = MarkDirty(req)
                  /\ made' = [made EXCEPT ![deleting[s].item_id] = WasDeleted]
             ELSE /\ \E outcome \in NoRowMatched :
                        deleting' = [deleting EXCEPT ![s].pc = "done",
                                                    ![s].result = outcome]
                  /\ UNCHANGED <<items, req, made>>
    /\ UNCHANGED <<next_id, now, resp, cache>>
    /\ UNCHANGED <<chat_vars, file_vars, page_resp, walk>>

\* create_item (POST /items/) for a JSON body of bodies: the body is
\* validated against ItemCreate (422 on failure, before the handler runs),
\* then ItemService.create stores it
create_item(bodies) ==
    \E body \in bodies :
        IF ~ItemCreateValid(body)
        THEN /\ Ready
             /\ resp' = [NoResponse EXCEPT !.op = "create_item", !.status = 422,
                                           !.body = body]
             /\ UNCHANGED <<items, next_id, now, req, cache, made>>
             /\ UNCHANGED beside_items
        ELSE create({ItemCreate(body)})

\* a setattr loop that also writes the id when it writes the title
setattrs_and_id(db_item, body, update_data) ==
    [db_item EXCEPT
        !.id = IF "title" \in update_data THEN 1 ELSE @,
        !.title = IF "title" \in update_data THEN body.title.value[1] ELSE @,
        !.description = IF "description" \in update_data
                        THEN body.description.value ELSE @,
        !.is_active = IF "is_active" \in update_data
                      THEN body.is_active.value[1] ELSE @]

\* the row after setattr(db_item, field, value) for every field of
\* update_data
setattrs(db_item, body, update_data) ==
    [db_item EXCEPT
        !.title = IF "title" \in update_data THEN body.title.value[1] ELSE @,
        !.description = IF "description" \in update_data
                        THEN body.description.value ELSE @,
        !.is_active = IF "is_active" \in update_data
                      THEN body.is_active.value[1] ELSE @]

\* update_item (PUT /items/{item_id}) with ItemService.update: the body is
\* validated against ItemUpdate (422), the row is selected (404 when there
\* is none), the fields of update_data are set and the row is committed.  A
\* null for a NOT NULL column fails the commit (500) and the transaction is
\* rolled back.  The UPDATE stamps updated_at with the database clock, a
\* tick later than the last write (until the clock reaches MaxClock); when
\* no column value changes the unit of work may issue no UPDATE at all.
update_item ==
    /\ Ready
    /\ \E item_id \in ItemIds, body \in UpdateBodies :
          LET answer(status) == [NoResponse EXCEPT !.op = "update_item",
                                                   !.status = status,
                                                   !.item_id = item_id,
                                                   !.body = body]
              update_data == model_dump(body)
              tried == IF "title" \in update_data THEN <<body.title.value>> ELSE <<>>
          IN  IF ~ItemUpdateValid(body)
              THEN /\ resp' = answer(422)
                   /\ UNCHANGED <<items, now, req, made>>
              ELSE IF ~\E r \in items : r.id = item_id
              THEN /\ resp' = [answer(404) EXCEPT !.db_reads = 1]
                   /\ UNCHANGED <<items, now, req, made>>
              ELSE IF \E f \in update_data \cap NotNullColumns : body[f].value = None
              THEN /\ resp' = [answer(500) EXCEPT !.db_reads = 1, !.wrote = tried]
                   /\ UNCHANGED <<items, now, req, made>>
              ELSE LET db_item == CHOOSE r \in items : r.id = item_id
                       changed == setattrs(db_item, body, update_data)
                       stamp == Min(func_now(now, 1), Max(now, MaxClock))
                   IN  \E refreshed \in
                            {[changed EXCEPT !.updated_at = stamp]}
                            \cup (IF changed = db_item THEN {db_item} ELSE {}) :
                          /\ items' = (items \ {db_item}) \cup {refreshed}
                          /\ now' = IF refreshed = db_item THEN now ELSE stamp
                          /\ resp' = [answer(200) EXCEPT !.db_reads = 1,
                                                         !.wrote = tried,
                                                         !.items = <<refreshed>>]
                          /\ req' = MarkDirty(req)
                          /\ made' = [made EXCEPT ![item_id].touched = TRUE]
    /\ UNCHANGED <<next_id, cache>>
    /\ UNCHANGED beside_items

\* ItemService.get: the row with the id, or None
get ==
    /\ Ready
    /\ \E item_id \in ItemIds :
          LET found == {r \in items : r.id = item_id}
          IN  resp' = [NoResponse EXCEPT
                          !.op = "get", !.item_id = item_id, !.db_reads = 1,
                          !.items = IF found = {} THEN <<>>
                                    ELSE <<CHOOSE r \in found : TRUE>>]
    /\ UNCHANGED <<items, next_id, now, req, cache, made>>
    /\ UNCHANGED beside_items

\* read_item (GET /items/{item_id}) behind @cache: a stored response that
\* the key of this call finds is returned without running the handler;
\* otherwise ItemService.get runs, an item found is stored under the key and
\* returned, and a missing one raises ItemNotFoundException (404, nothing
\* stored).  The key is built from the arguments of the call, the session
\* object among them, so a stored response may also be missed.
read_item ==
    /\ Ready
    /\ \E item_id \in ItemIds :
          \/ /\ cache[item_id] # None
             /\ resp' = [NoResponse EXCEPT !.op = "read_item", !.status = 200,
                                           !.item_id = item_id,
                                           !.items = <<cache[item_id][1]>>,
                                           !.cached = TRUE]
             /\ cache' = cache
          \/ LET found == {r \in items : r.id = item_id}
             IN  IF found = {}
                 THEN /\ resp' = [NoResponse EXCEPT !.op = "read_item", !.status = 404,
                                                    !.item_id = item_id,
                                                    !.db_reads = 1]
                      /\ cache' = cache
                 ELSE LET item == CHOOSE r \in found : TRUE
                      IN  /\ resp' = [NoResponse EXCEPT !.op = "read_item",
                                                        !.status = 200,
                                                        !.item_id = item_id,
                                                        !.db_reads = 1,
                                                        !.items = <<item>>]
                          /\ cache' = [cache EXCEPT ![item_id] = Some(item)]
    /\ UNCHANGED <<items, next_id, now, req, made>>
    /\ UNCHANGED beside_items

\* a stored response reaches its expiry (ITEM_CACHE_EXPIRE_SECONDS after it
\* was stored) and is dropped
cache_expire ==
    /\ Ready
    /\ \E item_id \in ItemIds :
          /\ cache[item_id] # None
          /\ cache' = [cache EXCEPT ![item_id] = None]
    /\ UNCHANGED <<items, next_id, now, req, resp, made>>
    /\ UNCHANGED beside_items

----------------------------------------------------------------------------
(* websocket_endpoint, one action for each await it resumes from           *)

\* manager.connect: the handshake is accepted, the websocket is appended,
\* and the broadcast of the "joined" message starts (the websockets are
\* numbered in the order they connect in)
connect ==
    /\ \E w \in Sockets :
          /\ chat[w].pc = "new"
          /\ \A v \in 1..(w - 1) : chat[v].pc # "new"
          /\ active_connections' = list_append(active_connections, w)
          /\ chat' = [chat EXCEPT ![w] =
                          StartBroadcast(@, "join", active_connections', FALSE)]
          /\ peer' = [peer EXCEPT ![w] = "open"]
    /\ UNCHANGED inbox
    /\ UNCHANGED beside_chat

\* a client closes its connection, or the network drops it
client_close ==
    /\ \E w \in Sockets :
          /\ peer[w] = "open"
          /\ peer' = [peer EXCEPT ![w] = "gone"]
          /\ inbox' = [inbox EXCEPT ![w] = <<>>]
    /\ UNCHANGED <<active_connections, chat>>
    /\ UNCHANGED beside_chat

\* websocket.receive_text() returns a message of the client, and the
\* broadcast of it starts
receive_text ==
    /\ \E w \in Sockets :
          /\ chat[w].pc = "receive"
          /\ peer[w] = "open"
          /\ chat[w].texts < MaxTexts
          /\ chat' = [chat EXCEPT ![w] =
                          [StartBroadcast(@, "broadcast", active_connections, TRUE)
                              EXCEPT !.texts = @ + 1]]
    /\ UNCHANGED <<active_connections, peer, inbox>>
    /\ UNCHANGED beside_chat

\* the except clause of the handler of w: manager.disconnect(websocket),
\* then the broadcast of the "left" message starts; remove raises
\* ValueError for a websocket that is not in the list, which ends the
\* handler
except_WebSocketDisconnect(w) ==
    IF InList(active_connections, w)
    THEN /\ active_connections' = list_remove(active_connections, w)
         /\ chat' = [chat EXCEPT ![w] =
                         StartBroadcast(@, "leave", active_connections', FALSE)]
         /\ peer' = peer
    ELSE /\ chat' = [chat EXCEPT ![w] = Ended(@)]
         /\ peer' = [peer EXCEPT ![w] = "gone"]
         /\ active_connections' = active_connections

\* websocket.receive_text() raises WebSocketDisconnect: the client has gone
receive_disconnect ==
    /\ \E w \in Sockets :
          /\ chat[w].pc = "receive"
          /\ peer[w] = "gone"
          /\ except_WebSocketDisconnect(w)
    /\ UNCHANGED inbox
    /\ UNCHANGED beside_chat

\* one turn of the loop of manager.broadcast in the handler of w: the
\* iterator yields the element at its position in the list as it is now,
\* and connection.send_text is awaited.  An exception leaves the loop: in
\* the "joined" and the "left" broadcast it ends the handler (neither is
\* inside the try), in the broadcast of a message WebSocketDisconnect runs
\* the except clause and any other error ends the handler.  A handler that
\* ends leaves the connection of its websocket closed.
send_text ==
    /\ \E w \in Sockets :
          /\ chat[w].pc \in {"join", "broadcast", "leave"}
          /\ chat[w].idx < Len(active_connections)
          /\ LET connection == active_connections[chat[w].idx + 1]
             IN  \E outcome \in SendOutcomes(peer[connection]) :
                    IF outcome = "sent"
                    THEN /\ chat' = [chat EXCEPT
                                        ![w].idx = @ + 1,
                                        ![w].sent_to =
                                            IF chat[w].pc = "broadcast"
                                            THEN Append(@, connection) ELSE @]
                         /\ inbox' =
                                IF chat[w].pc = "broadcast" /\ peer[connection] = "open"
                                THEN [inbox EXCEPT ![connection] =
                                         Append(@, <<w, chat[w].texts>>)]
                                ELSE inbox
                         /\ UNCHANGED <<active_connections, peer>>
                    ELSE IF chat[w].pc = "broadcast" /\ outcome = "WebSocketDisconnect"
                    THEN except_WebSocketDisconnect(w) /\ inbox' = inbox
                    ELSE /\ chat' = [chat EXCEPT ![w] = Ended(@)]
                         /\ peer' = [peer EXCEPT ![w] = "gone"]
                         /\ active_connections' = active_connections
                         /\ inbox' = [inbox EXCEPT ![w] = <<>>]
    /\ UNCHANGED beside_chat

\* the iterator of manager.broadcast is exhausted: after "joined" and after
\* a message the handler awaits the next message, after "left" it returns
broadcast_done ==
    /\ \E w \in Sockets :
          /\ chat[w].pc \in {"join", "broadcast", "leave"}
          /\ chat[w].idx >= Len(active_connections)
          /\ IF chat[w].pc = "leave"
             THEN /\ chat' = [chat EXCEPT ![w] = Ended(@)]
                  /\ peer' = [peer EXCEPT ![w] = "gone"]
                  /\ inbox' = [inbox EXCEPT ![w] = <<>>]
             ELSE /\ chat' = [chat EXCEPT ![w] =
                                  [@ EXCEPT !.pc = "receive", !.idx = 0,
                                            !.at_start = <<>>, !.sent_to = <<>>]]
                  /\ peer' = peer
                  /\ inbox' = inbox
    /\ UNCHANGED active_connections
    /\ UNCHANGED beside_chat

----------------------------------------------------------------------------
(* The files endpoints.  upload_file runs up to its first await in one     *)
(* step, then once for each await it resumes from; download_file and       *)
(* delete_file do not await between their checks and their access.         *)

\* an upload request that has been answered with file_path.name
Answered(h, status_code, file_path, stored) ==
    [h EXCEPT !.pc = "done", !.status = status_code, !.path = file_path,
              !.filename = PathName(file_path), !.live = stored]

\* an upload request that has been refused
Refused(status_code) == [NewUpload EXCEPT !.pc = "done", !.status = status_code]

\* upload_file from its start to the await of aiofiles.open: 400 without a
\* filename, 413 for a body over the size limit, else the path is chosen
upload_file ==
    /\ \E u \in Uploads, filename \in UploadNames, body \in UploadBodies :
          /\ up[u].pc = "new"
          /\ \A v \in 1..(u - 1) : up[v].pc # "new"
          /\ up' = [up EXCEPT ![u] =
                     IF filename = NoFileName THEN Refused(400)
                     ELSE IF body.size > MAX_UPLOAD_SIZE THEN Refused(413)
                     ELSE [@ EXCEPT !.pc = "open", !.sent = filename,
                                    !.body = body,
                                    !.path = FreePath(disk, filename)]]
    /\ UNCHANGED <<disk, file_resp>>
    /\ UNCHANGED beside_files

\* aiofiles.open(file_path, "wb") has run in its thread: the file is there
\* and empty; or it raised (500)
aiofiles_open ==
    /\ \E u \in Uploads, outcome \in {"opened", "OSError"} :
          /\ up[u].pc = "open"
          /\ IF outcome = "opened"
             THEN /\ disk' = [disk EXCEPT ![up[u].path] = Some(<<>>)]
                  /\ up' = [up EXCEPT ![u].pc = "write"]
             ELSE /\ up' = [up EXCEPT ![u] = Refused(500)]
                  /\ disk' = disk
    /\ UNCHANGED file_resp
    /\ UNCHANGED beside_files

\* file.read(), f.write(content) and the close of the file have run: the
\* bytes are in the file the handler holds open (which is no longer in the
\* directory if it has been deleted meanwhile), and the response is 201
\* with file_path.name
aiofiles_write ==
    /\ \E u \in Uploads :
          /\ up[u].pc = "write"
          /\ disk' = IF up[u].unlinked THEN disk
                     ELSE [disk EXCEPT ![up[u].path] =
                              Some(Overwrite(@[1], up[u].body.bytes))]
          /\ up' = [up EXCEPT ![u] = Answered(@, 201, @.path, ~@.unlinked)]
    /\ UNCHANGED file_resp
    /\ UNCHANGED beside_files

\* download_file (GET /files/download/{filename})
download_file ==
    /\ file_resp.op = "none"
    /\ \E filename \in RouteNames :
          LET file_path == PathOf(filename)
              answer == [NoFileResponse EXCEPT !.op = "download_file",
                                               !.filename = filename]
          IN  file_resp' =
                  IF ~Exists(disk, file_path) \/ ~IsFile(disk, file_path)
                  THEN [answer EXCEPT !.status = 404]
                  ELSE IF ~RelativeToUploadDir(file_path)
                       THEN [answer EXCEPT !.status = 403]
                       ELSE [answer EXCEPT !.status = 200,
                                           !.content = disk[file_path][1],
                                           !.touched = Some(file_path)]
    /\ UNCHANGED <<disk, up>>
    /\ UNCHANGED beside_files

\* what file_path.unlink() means to the upload requests: one that holds the
\* file open keeps writing to a file no directory lists, one that stored it
\* has its file gone
Unlinked(h, file_path) ==
    IF h.path # file_path THEN h
    ELSE IF h.pc = "write" THEN [h EXCEPT !.unlinked = TRUE]
    ELSE IF h.pc = "done" THEN [h EXCEPT !.live = FALSE]
    ELSE h

\* delete_file (DELETE /files/{filename})
delete_file ==
    /\ file_resp.op = "none"
    /\ \E filename \in RouteNames :
          LET file_path == PathOf(filename)
              answer == [NoFileResponse EXCEPT !.op = "delete_file",
                                               !.filename = filename]
          IN  IF ~Exists(disk, file_path) \/ ~IsFile(disk, file_path)
              THEN /\ file_resp' = [answer EXCEPT !.status = 404]
                   /\ UNCHANGED <<disk, up>>
              ELSE IF ~RelativeToUploadDir(file_path)
                   THEN /\ file_resp' = [answer EXCEPT !.status = 403]
                        /\ UNCHANGED <<disk, up>>
                   ELSE /\ disk' = [disk EXCEPT ![file_path] = None]
                        /\ up' = [u \in Uploads |-> Unlinked(up[u], file_path)]
                        /\ file_resp' = [answer EXCEPT !.status = 204,
                                                       !.touched = Some(file_path)]
    /\ UNCHANGED beside_files

\* the response of download_file or delete_file leaves the server
file_respond ==
    /\ file_resp.op # "none"
    /\ file_resp' = NoFileResponse
    /\ UNCHANGED <<disk, up>>
    /\ UNCHANGED beside_files

----------------------------------------------------------------------------
(* The pages router.                                                       *)

\* contact_submit (POST /pages/contact) for the form fields name, email and
\* message: the success view with the validated data, or 422 with the
\* errors by field and the values as posted
contact_submit ==
    /\ page_resp.op = "none"
    /\ \E name \in NameInputs, email \in EmailInputs, message \in MessageInputs :
          LET errors == ContactFormErrors(name, email, message)
              context == [NoPage EXCEPT !.op = "contact_submit",
                                        !.sent = FormData(name, email, message)]
          IN  page_resp' =
                  IF errors = {}
                  THEN [context EXCEPT
                           !.status = 200,
                           !.success = TRUE,
                           !.submitted_data =
                               Some(FormData(name, validate_email(email)[1], message))]
                  ELSE [context EXCEPT
                           !.status = 422,
                           !.errors = errors,
                           !.form_data = Some(FormData(name, email, message))]
    /\ UNCHANGED <<item_vars, chat_vars, file_vars, deleting, walk>>

\* the tables the home page is asked for over: rows with ids 1..n in the
\* order of their creation, stamped by a clock that never runs backwards
HomeStores ==
    {{ItemModel([title |-> <<"a">>, description |-> None, is_active |-> TRUE],
                i, stamps[i]) : i \in 1..n} :
        n \in 0..MaxHomeItems,
        stamps \in {st \in [1..MaxHomeItems -> 0..MaxClock] :
                       \A i \in 1..(MaxHomeItems - 1) : st[i] <= st[i + 1]}}

\* the state after the creates that made one of those tables
InitHome ==
    /\ items \in HomeStores
    /\ next_id = Cardinality(items) + 1
    /\ now \in 0..MaxClock
    /\ \A r \in items : r.created_at <= now
    /\ req = Idle
    /\ resp = NoResponse
    /\ cache = [i \in ItemIds |-> None]
    /\ made = [i \in ItemIds |-> NotMade]
    /\ active_connections = <<>>
    /\ chat = [w \in Sockets |-> NewHandler]
    /\ peer = [w \in Sockets |-> "none"]
    /\ inbox = [w \in Sockets |-> <<>>]
    /\ disk = [l \in Locations |-> None]
    /\ up = [u \in Uploads |-> NewUpload]
    /\ file_resp = NoFileResponse
    /\ page_resp = NoPage
    /\ deleting = [s \in Sessions |-> NoDelete]
    /\ walk = NoWalk

\* index (GET /pages/): ItemService.get_multi(db) with no pagination, no
\* filters and no sort reads the statement once; the template gets the
\* first five items of the result
index ==
    /\ page_resp.op = "none"
    /\ \E s \in ResultSeqs(get_multi_query(None, None), items) :
          page_resp' = [NoPage EXCEPT
                           !.op = "index", !.status = 200,
                           !.items = SubSeq(s, 1, Min(HomeItems, Len(s)))]
    /\ UNCHANGED <<item_vars, chat_vars, file_vars, deleting, walk>>

\* the response of the pages router leaves the server
page_respond ==
    /\ page_resp.op # "none"
    /\ page_resp' = NoPage
    /\ UNCHANGED <<item_vars, chat_vars, file_vars, deleting, walk>>

----------------------------------------------------------------------------
(* Reads: read_items (GET /items/) and ItemService.get_multi                *)

\* the sort object a caller builds
SortObject(args) ==
    IF args.cls = "SortParams" THEN SortParams(args.kw) ELSE ItemSortParams(args.kw)

\* the filters argument of a call of get_multi
FiltersArg(args) ==
    IF args.has_filters THEN Some(ItemFilterParams(args.title, args.is_active)) ELSE None

\* the sort argument of a call of get_multi
SortArg(args) == IF args.has_sort THEN Some(SortObject(args)) ELSE None

\* the statement read_items has get_multi build for a query string
read_items_query(args) ==
    get_multi_query(Some(ItemFilterParams(args.title, args.is_active)),
                    Some(SortObject(args)))

\* read_items up to the first read of paginate, for a query string of
\* inputs: validation, the three parameter objects, the statement of
\* get_multi, and the count query
read_items(inputs) ==
    /\ Ready
    /\ req.pc = "idle"
    /\ \E args \in inputs :
          LET pagination == PaginationParams(args.page, args.page_size)
              query == read_items_query(args)
              failed(status) == [NoResponse EXCEPT !.op = "read_items",
                                                   !.status = status, !.args = args]
          IN  IF ~QueryParamsValid(args.page, args.page_size)
              THEN resp' = failed(422) /\ req' = req
              ELSE IF ~PaginationParamsValid(args.page, args.page_size)
                      \/ OrderByRaises(query)
              THEN resp' = failed(500) /\ req' = req
              ELSE /\ req' = [pc |-> "fetch", op |-> "read_items", args |-> args,
                              pagination |-> pagination, query |-> query,
                              total |-> paginate_count(query, pagination, items),
                              dirty |-> FALSE]
                   /\ resp' = NoResponse
    /\ UNCHANGED <<items, next_id, now, cache, made>>
    /\ UNCHANGED beside_items

\* the second read of paginate, which ends get_multi; read_items then
\* builds the page with PagedResponse.create
paginate_fetch ==
    /\ Ready
    /\ req.pc = "fetch"
    /\ LET windowed == paginated_query(req.query, req.pagination)
       IN  \E s \in ResultSeqs(windowed, items) :
              LET page == PagedResponse_create(Window(windowed, s), req.total,
                                               req.pagination)
                  paged == req.op = "read_items"
              IN  resp' = [op |-> req.op, status |-> 200, args |-> req.args,
                           query |-> req.query, items |-> Window(windowed, s),
                           total |-> req.total,
                           page |-> IF paged THEN page.page ELSE 0,
                           page_size |-> IF paged THEN page.page_size ELSE 0,
                           total_pages |-> IF paged THEN page.total_pages ELSE 0,
                           offset |-> windowed.offset[1],
                           limit |-> windowed.limit[1],
                           db_reads |-> 2, dirty |-> req.dirty, result_seq |-> s]
    /\ req' = Idle
    /\ UNCHANGED <<items, next_id, now, cache, made>>
    /\ UNCHANGED beside_items

\* ItemService.get_multi called on its own, each argument given or not:
\* with a pagination it goes through paginate (its count query here, the
\* window query in paginate_fetch); without, the statement is read once and
\* total is the length of the result
get_multi ==
    /\ Ready
    /\ req.pc = "idle"
    /\ \E args \in GetMultiInputs :
          LET query == get_multi_query(FiltersArg(args), SortArg(args))
              pagination == PaginationParams(args.page, args.page_size)
          IN  IF OrderByRaises(query)
              THEN /\ resp' = [NoResponse EXCEPT !.op = "get_multi", !.status = 500,
                                                 !.args = args]
                   /\ req' = req
              ELSE IF args.has_pagination
              THEN /\ req' = [pc |-> "fetch", op |-> "get_multi", args |-> args,
                              pagination |-> pagination, query |-> query,
                              total |-> paginate_count(query, pagination, items),
                              dirty |-> FALSE]
                   /\ resp' = NoResponse
              ELSE /\ \E s \in ResultSeqs(query, items) :
                        resp' = [NoResponse EXCEPT !.op = "get_multi", !.status = 200,
                                                   !.args = args, !.query = query,
                                                   !.items = s,
                                                   !.total = Len(s),
                                                   !.db_reads = 1, !.result_seq = s]
                   /\ req' = req
    /\ UNCHANGED <<items, next_id, now, cache, made>>
    /\ UNCHANGED beside_items

\* a client starts to read the list from page 1
walk_start ==
    /\ walk.pc = "idle"
    /\ \E args \in WalkInputs :
          walk' = [pc |-> "walking", args |-> args, next |-> 1, seen |-> <<>>]
    /\ UNCHANGED <<item_vars, chat_vars, file_vars, page_resp, deleting>>

\* read_items for the next page of the walk, both reads of paginate and
\* PagedResponse.create; the client stops at the page that is the last by
\* total_pages
walk_page ==
    /\ walk.pc = "walking"
    /\ LET args == [walk.args EXCEPT !.page = walk.next]
           pagination == PaginationParams(args.page, args.page_size)
           query == read_items_query(args)
           total == paginate_count(query, pagination, items)
           windowed == paginated_query(query, pagination)
       IN  \E s \in ResultSeqs(windowed, items) :
              LET page == PagedResponse_create(Window(windowed, s), total,
                                               pagination)
              IN  walk' = [walk EXCEPT
                              !.pc = IF page.total_pages <= walk.next
                                     THEN "done" ELSE "walking",
                              !.next = @ + 1,
                              !.seen = @ \o page.items]
    /\ UNCHANGED <<item_vars, chat_vars, file_vars, page_resp, deleting>>

\* the client is done with the list
walk_end ==
    /\ walk.pc = "done"
    /\ walk' = NoWalk
    /\ UNCHANGED <<item_vars, chat_vars, file_vars, page_resp, deleting>>

\* a create while no client is reading the list page by page
create_between_walks == walk.pc = "idle" /\ create(ItemInputs)

\* a delete while no client is reading the list page by page
delete_between_walks == walk.pc = "idle" /\ delete

\* FilterParams.apply(select(Item), Item) for a filter object that holds the
\* fields of HeldInputs, and the rows the statement then yields
FilterParams_call ==
    /\ Ready
    /\ req.pc = "idle"
    /\ \E held \in HeldInputs :
          LET query == FilterParams_apply(held, select)
          IN  \E s \in ResultSeqs(query, items) :
                 resp' = [NoResponse EXCEPT !.op = "FilterParams", !.status = 200,
                                            !.held = held, !.query = query,
                                            !.items = s, !.total = Len(s),
                                            !.db_reads = 1, !.result_seq = s]
    /\ UNCHANGED <<items, next_id, now, req, cache, made>>
    /\ UNCHANGED beside_items

\* PaginationParams(page, page_size) and PagedResponse.create(items, total,
\* pagination) on their own, for any page, page size and total
PagedResponse_call ==
    /\ Ready
    /\ req.pc = "idle"
    /\ \E page \in Pages, page_size \in 0..(PageSizeMax + 1), total \in 0..MaxTotal :
          IF ~PaginationParamsValid(page, page_size)
          THEN resp' = [NoResponse EXCEPT !.op = "PagedResponse", !.status = 422,
                                          !.args.page = page,
                                          !.args.page_size = page_size]
          ELSE LET pagination == PaginationParams(page, page_size)
                   paged == PagedResponse_create(<<>>, total, pagination)
               IN  resp' = [NoResponse EXCEPT !.op = "PagedResponse", !.status = 200,
                                              !.args.page = page,
                                              !.args.page_size = page_size,
                                              !.items = paged.items,
                                              !.total = paged.total,
                                              !.page = paged.page,
                                              !.page_size = paged.page_size,
                                              !.total_pages = paged.total_pages,
                                              !.offset = skip(pagination),
                                              !.limit = limit(pagination)]
    /\ UNCHANGED <<items, next_id, now, req, cache, made>>
    /\ UNCHANGED beside_items

Next ==
    \/ create(ItemInputs)
    \/ delete
    \/ read_items(ReadItemsInputs)
    \/ paginate_fetch
    \/ get_multi
    \/ respond

Spec == Init /\ [][Next]_vars

\* the pagination view of the system: rows are interchangeable, requests
\* vary the window only, and the pagination arithmetic is also called on
\* its own
PlainItem == [title |-> <<"a">>, description |-> None, is_active |-> TRUE]

NextPaged ==
    \/ create({PlainItem})
    \/ delete
    \/ read_items(PagingInputs)
    \/ paginate_fetch
    \/ PagedResponse_call
    \/ respond

SpecPaged == Init /\ [][NextPaged]_vars

\* the items endpoints that read and write single rows
NextCrud ==
    \/ create_item(CreateBodies)
    \/ update_item
    \/ delete
    \/ get
    \/ respond

SpecCrud == Init /\ [][NextCrud]_vars

\* the cached endpoint next to the writes
NextCache ==
    \/ create(ItemInputs)
    \/ delete
    \/ read_item
    \/ cache_expire
    \/ respond

SpecCache == Init /\ [][NextCache]_vars

\* the generic filter over the items table
NextFilter ==
    \/ create(ItemInputs)
    \/ delete
    \/ FilterParams_call
    \/ respond

SpecFilter == Init /\ [][NextFilter]_vars

\* the chat endpoint with its clients
NextWalk ==
    \/ create_between_walks
    \/ delete_between_walks
    \/ walk_start
    \/ walk_page
    \/ walk_end
    \/ respond

\* clients that read the whole list while the table stays as it is
SpecWalk == Init /\ [][NextWalk]_vars

NextDelete ==
    \/ create(ItemInputs)
    \/ delete_select
    \/ delete_commit
    \/ respond

\* deletes in concurrent sessions
SpecDelete == Init /\ [][NextDelete]_vars

NextHome == index \/ page_respond

\* the home page over a table of up to MaxHomeItems rows
SpecHome == InitHome /\ [][NextHome]_vars

NextContact == contact_submit \/ page_respond

\* the contact form
SpecContact == Init /\ [][NextContact]_vars

NextFiles ==
    \/ upload_file
    \/ aiofiles_open
    \/ aiofiles_write
    \/ download_file
    \/ delete_file
    \/ file_respond

\* the files endpoints under concurrent requests
SpecFiles == Init /\ [][NextFiles]_vars

NextChat ==
    \/ connect
    \/ client_close
    \/ receive_text
    \/ receive_disconnect
    \/ send_text
    \/ broadcast_done

SpecChat == Init /\ [][NextChat]_vars

----------------------------------------------------------------------------
(* Properties.                                                             *)

\* the rows of a sequence
Rows(s) == {s[i] : i \in 1..Len(s)}

\* a successful response of GET /items/
ListOk == resp.op = "read_items" /\ resp.status = 200

\* C1: when no write commits between the two reads of paginate, total is
\* the number of rows that satisfy the statement's predicates (whatever the
\* page and the page size), and items are the rows at positions
\* [offset, offset + limit) of the statement's result sequence, so at most
\* limit rows.
PaginateContract ==
    (ListOk /\ ~resp.dirty) =>
        LET offset == (resp.args.page - 1) * resp.args.page_size
            lim == resp.args.page_size
            seq == resp.result_seq
            matching == {r \in items :
                            \A i \in 1..Len(resp.query.where) :
                                Matches(resp.query.where[i], r)}
        IN  /\ resp.total = Cardinality(matching)
            /\ Rows(seq) = matching
            /\ Len(seq) = Cardinality(matching)
            /\ Len(resp.items) <= lim
            /\ Len(resp.items) = Max(0, Min(lim, Len(seq) - offset))
            /\ \A i \in 1..Len(resp.items) : resp.items[i] = seq[offset + i]

\* C1 witness: the second page of size one over two stored rows
PaginateContractWitness ==
    /\ ListOk /\ ~resp.dirty
    /\ resp.args.page = 2 /\ resp.args.page_size = 1
    /\ resp.total = 2
    /\ Len(resp.items) = 1
    /\ resp.items[1] = resp.result_seq[2]

\* C2: every PaginationParams with page >= 1 and 1 <= page_size <= 100 is
\* constructed, and its skip is (page - 1) * page_size and its limit is
\* page_size; paginate windows its second read with exactly these.
PaginationDerived ==
    /\ (resp.op = "PagedResponse" /\ resp.args.page >= 1
        /\ resp.args.page_size >= 1 /\ resp.args.page_size <= 100)
            => resp.status = 200
    /\ (resp.op \in {"PagedResponse", "read_items"} /\ resp.status = 200)
            => /\ resp.offset = (resp.args.page - 1) * resp.args.page_size
               /\ resp.limit = resp.args.page_size

\* C2 witness: page 3 of size 100 skips 200 rows
PaginationDerivedWitness ==
    /\ resp.op = "PagedResponse" /\ resp.status = 200
    /\ resp.args.page = 3 /\ resp.args.page_size = 100
    /\ resp.offset = 200 /\ resp.limit = 100

\* total_pages is the least number of pages of page_size that hold total
\* rows, and page and page_size are the ones asked for
PagesAreCeiling ==
    /\ resp.page = resp.args.page
    /\ resp.page_size = resp.args.page_size
    /\ resp.total_pages >= 0
    /\ resp.total_pages * resp.page_size >= resp.total
    /\ (resp.total_pages - 1) * resp.page_size < resp.total
    /\ (resp.total = 0 => resp.total_pages = 0)

\* C3 as stated: total_pages = ceil(total / page_size), page and page_size
\* echoed, and total = 0 comes with total_pages = 0 and an empty item list.
PagedCreateAsStated ==
    (resp.op \in {"PagedResponse", "read_items"} /\ resp.status = 200) =>
        /\ PagesAreCeiling
        /\ (resp.total = 0 => resp.items = <<>>)

\* C3 amended: total_pages = ceil(total / page_size), page and page_size
\* echoed, total = 0 comes with total_pages = 0, and with an empty item list
\* when no write committed between the two reads of paginate.
PagedCreate ==
    (resp.op \in {"PagedResponse", "read_items"} /\ resp.status = 200) =>
        /\ PagesAreCeiling
        /\ ((resp.total = 0 /\ ~resp.dirty) => resp.items = <<>>)

\* C3 witness: five rows in pages of two make three pages
PagedCreateWitness ==
    /\ resp.op = "PagedResponse" /\ resp.status = 200
    /\ resp.total = 5 /\ resp.page_size = 2 /\ resp.total_pages = 3

ValidationFirst ==
    /\ (resp.op \in {"read_items", "PagedResponse"}
        /\ ~(resp.args.page >= 1 /\ resp.args.page_size >= 1
             /\ resp.args.page_size <= 100))
            => resp.status = 422 /\ resp.db_reads = 0 /\ req.pc = "idle"
    /\ (req.pc = "fetch")
            => /\ req.pagination.page >= 1
               /\ req.pagination.page_size >= 1
               /\ req.pagination.page_size <= 100
    /\ ListOk
            => resp.page >= 1 /\ resp.page_size >= 1 /\ resp.page_size <= 100

\* C5 witness: page_size = 101 is rejected
ValidationFirstWitness ==
    /\ resp.op = "read_items" /\ resp.status = 422
    /\ resp.args.page = 1 /\ resp.args.page_size = 101
    /\ resp.db_reads = 0
    /\ items # {}

\* rows the is_active parameter of a query string admits
ActiveAdmits(args, r) ==
    args.is_active = None \/ r.is_active = args.is_active[1]

\* C6 as stated: a title filter returns exactly the rows whose title
\* contains the given text, compared without regard to case (among the rows
\* the is_active filter admits).
TitleFilterIsSubstring ==
    (ListOk /\ resp.args.title # None) =>
        Rows(resp.result_seq) =
            {r \in items : /\ Contains(Lower(r.title), Lower(resp.args.title[1]))
                           /\ ActiveAdmits(resp.args, r)}

\* C7: an absent filter field constrains nothing, is_active = false keeps
\* the inactive rows only, and with both fields absent the statement is the
\* one built without a filter object and every row is returned.
AbsentFieldNoConstraint ==
    ListOk =>
        /\ (resp.args.title = None) =>
               Rows(resp.result_seq) = {r \in items : ActiveAdmits(resp.args, r)}
        /\ (resp.args.is_active = None /\ resp.args.title # None) =>
               Rows(resp.result_seq) =
                   {r \in items :
                       ILike(r.title, <<"%">> \o resp.args.title[1] \o <<"%">>)}
        /\ (resp.args.is_active = Some(FALSE)) =>
               /\ \A r \in Rows(resp.result_seq) : ~r.is_active
               /\ \A r \in items :
                     (r.is_active /\ resp.args.title = None)
                         => r \notin Rows(resp.result_seq)
        /\ (resp.args.title = None /\ resp.args.is_active = None) =>
               /\ resp.query = get_multi_query(None, Some(SortObject(resp.args)))
               /\ Rows(resp.result_seq) = items

\* C7 witness: is_active = false over a store with an active and an
\* inactive row returns the inactive row alone
AbsentFieldNoConstraintWitness ==
    /\ ListOk
    /\ resp.args.is_active = Some(FALSE) /\ resp.args.title = None
    /\ \E r \in items : r.is_active
    /\ \E r \in items : ~r.is_active
    /\ Len(resp.items) = 1
    /\ ~resp.items[1].is_active

\* the rows of s are in non-decreasing order of column col
NonDecreasing(col, s) ==
    \A i, j \in 1..Len(s) : i < j => ~KeyLt(col, s[j], s[i])

\* the rows of s are in non-increasing order of column col
NonIncreasing(col, s) ==
    \A i, j \in 1..Len(s) : i < j => ~KeyLt(col, s[i], s[j])

\* C8: when sort_by names a column, the items of the response are in
\* non-decreasing order of that column for asc and in non-increasing order
\* for desc.
SortedByField ==
    (resp.op \in {"read_items", "get_multi"} /\ resp.status = 200
     /\ resp.args.has_sort
     /\ resp.args.kw.has_sort_by /\ resp.args.kw.has_sort_order
     /\ resp.args.kw.sort_by # None) =>
        LET col == resp.args.kw.sort_by[1]
        IN  col \in Columns =>
                /\ resp.args.kw.sort_order = "asc"
                       => NonDecreasing(col, resp.items) /\ NonDecreasing(col, resp.result_seq)
                /\ resp.args.kw.sort_order = "desc"
                       => NonIncreasing(col, resp.items) /\ NonIncreasing(col, resp.result_seq)

\* C8 witness: two rows with different titles returned in descending order
\* of title
SortedByFieldWitness ==
    /\ ListOk
    /\ resp.args.kw.sort_by = Some("title") /\ resp.args.kw.sort_order = "desc"
    /\ Len(resp.items) = 2
    /\ StrLt(resp.items[2].title, resp.items[1].title)

\* C9 as stated: a sort_by that is not a column leaves the statement
\* without ORDER BY, and the request succeeds with every row the filters
\* admit.
UnknownSortIgnored ==
    (resp.op = "read_items"
     /\ QueryParamsValid(resp.args.page, resp.args.page_size)
     /\ resp.args.kw.sort_by[1] \notin Columns) =>
        /\ resp.status = 200
        /\ resp.query.order_by = <<>>
        /\ Rows(resp.result_seq) = Matching(resp.query, items)

\* a sort built with a column as sort_by and no sort_order
OnlySortBy ==
    /\ resp.op = "get_multi" /\ resp.status = 200
    /\ resp.args.has_sort
    /\ resp.args.kw.has_sort_by /\ ~resp.args.kw.has_sort_order
    /\ resp.args.kw.sort_by # None
    /\ resp.args.kw.sort_by[1] \in Columns

\* C10 as stated: a SortParams or an ItemSortParams built with a sort_by
\* only orders the result descending by that column.
DefaultOrderDescending ==
    OnlySortBy => NonIncreasing(resp.args.kw.sort_by[1], resp.items)

\* C10 amended: built with a sort_by only, an ItemSortParams orders the
\* result descending by that column and a SortParams ascending; an
\* ItemSortParams built with no argument orders descending by created_at.
DefaultOrderByClass ==
    /\ (OnlySortBy /\ resp.args.cls = "ItemSortParams")
           => NonIncreasing(resp.args.kw.sort_by[1], resp.items)
    /\ (OnlySortBy /\ resp.args.cls = "SortParams")
           => NonDecreasing(resp.args.kw.sort_by[1], resp.items)
    /\ (resp.op = "get_multi" /\ resp.status = 200
        /\ resp.args.has_sort /\ resp.args.cls = "ItemSortParams"
        /\ ~resp.args.kw.has_sort_by /\ ~resp.args.kw.has_sort_order)
           => NonIncreasing("created_at", resp.items)

\* C10 witness: an ItemSortParams with sort_by = title alone returns two
\* rows in descending order of title
DefaultOrderByClassWitness ==
    /\ OnlySortBy /\ resp.args.cls = "ItemSortParams"
    /\ resp.args.kw.sort_by = Some("title")
    /\ Len(resp.items) = 2
    /\ StrLt(resp.items[2].title, resp.items[1].title)

\* a completed call of get_multi, on its own or behind GET /items/
GetMultiOk == resp.op \in {"get_multi", "read_items"} /\ resp.status = 200

\* rows the title argument of a call admits
TitleAdmits(args, r) ==
    args.title = None \/ ILike(r.title, <<"%">> \o args.title[1] \o <<"%">>)

\* C11: get_multi filters, then sorts, then paginates.  The rows it reads
\* are the ones the filters admit (all rows when filters are omitted, and
\* then the statement has no predicate), in the order of the sort (no ORDER
\* BY when sort is omitted); the page window is cut from that filtered and
\* sorted sequence, after a count of the statement without the window; and
\* with pagination omitted the items are all those rows, total is their
\* number, and the table is read once.
ComposeInOrder ==
    GetMultiOk =>
        LET args == resp.args
            seq == resp.result_seq
            offset == (args.page - 1) * args.page_size
        IN  /\ resp.query.offset = None /\ resp.query.limit = None
            /\ ~args.has_filters => resp.query.where = <<>> /\ Rows(seq) = items
            /\ args.has_filters =>
                   Rows(seq) = {r \in items : TitleAdmits(args, r) /\ ActiveAdmits(args, r)}
            /\ ~args.has_sort => resp.query.order_by = <<>>
            /\ (args.has_sort /\ args.kw.has_sort_by /\ args.kw.has_sort_order
                /\ args.kw.sort_by # None /\ args.kw.sort_by[1] \in Columns) =>
                   IF args.kw.sort_order = "desc"
                   THEN NonIncreasing(args.kw.sort_by[1], seq)
                   ELSE NonDecreasing(args.kw.sort_by[1], seq)
            /\ ~args.has_pagination =>
                   /\ resp.items = seq
                   /\ resp.total = Len(resp.items)
                   /\ resp.db_reads = 1
            /\ args.has_pagination =>
                   /\ resp.db_reads = 2
                   /\ Len(resp.items) = Max(0, Min(args.page_size, Len(seq) - offset))
                   /\ \A i \in 1..Len(resp.items) : resp.items[i] = seq[offset + i]
                   /\ ~resp.dirty => resp.total = Len(seq)

\* C11 witness: get_multi with a filter, no sort and no pagination returns
\* the one inactive row of a two-row store with total 1 from a single read
ComposeInOrderWitness ==
    /\ resp.op = "get_multi" /\ resp.status = 200
    /\ ~resp.args.has_pagination /\ ~resp.args.has_sort /\ resp.args.has_filters
    /\ resp.args.is_active = Some(FALSE)
    /\ Cardinality(items) = 2
    /\ Len(resp.items) = 1 /\ resp.total = 1 /\ resp.db_reads = 1

\* the row has the title, description and is_active of the input
SameFields(row, item_in) ==
    /\ row.title = item_in.title
    /\ row.description = item_in.description
    /\ row.is_active = item_in.is_active

\* the row carries an id of the sequence and both timestamps
Assigned(row) ==
    /\ row.id \in 1..MaxItems
    /\ row.created_at \in Nat
    /\ row.updated_at \in Nat

\* C12: get with the id that create returned, with no update or delete of
\* that id in between, finds one item; it has the title, description and
\* is_active of the input of create, and id, created_at and updated_at are
\* assigned.  The item create itself returns is the same.
CreateThenGet ==
    /\ (resp.op = "get" /\ made[resp.item_id].input # None
        /\ ~made[resp.item_id].touched) =>
            /\ Len(resp.items) = 1
            /\ resp.items[1].id = resp.item_id
            /\ SameFields(resp.items[1], made[resp.item_id].input[1])
            /\ Assigned(resp.items[1])
    /\ (resp.op = "create_item" /\ resp.status = 201) =>
            /\ Len(resp.items) = 1
            /\ resp.items[1].id = resp.item_id
            /\ made[resp.item_id].input # None
            /\ SameFields(resp.items[1], made[resp.item_id].input[1])
            /\ Assigned(resp.items[1])
            /\ resp.items[1] \in items

\* C12 witness: get finds the second item as it was created, inactive and
\* with a description, after the first item was updated
CreateThenGetWitness ==
    /\ resp.op = "get" /\ resp.item_id = 2
    /\ made[2].input # None /\ ~made[2].touched
    /\ made[1].touched
    /\ Len(resp.items) = 1
    /\ resp.items[1].title = <<"a">>
    /\ resp.items[1].description = Some(<<"b">>)
    /\ ~resp.items[1].is_active

\* a handler named op answers in this step
Answers(op) == resp.op = "none" /\ resp'.op = op

\* the row of a table with the id, when there is one
KnownIn(table, id) == \E r \in table : r.id = id

RowIn(table, id) == CHOOSE r \in table : r.id = id

Known(id) == KnownIn(items, id)

StoredRow(id) == RowIn(items, id)

\* the fields a body supplies, a null among them
Supplied(body) == {f \in UpdateFields : body[f].set}

\* the row holds the value the body supplies for field f
HoldsSupplied(row, body, f) ==
    IF f = "description" THEN row.description = body.description.value
    ELSE body[f].value # None /\ row[f] = body[f].value[1]

\* the body supplies null for a column that is NOT NULL
SuppliesNull(body) ==
    \E f \in Supplied(body) \cap {"title", "is_active"} : body[f].value = None

\* from table before to table after, the row with the id takes the
\* supplied values and keeps every column outside changing, and no other
\* row changes
ChangesOnly(before, after, id, body, changing) ==
    /\ KnownIn(after, id)
    /\ LET old == RowIn(before, id)
           new == RowIn(after, id)
       IN  /\ after \ {new} = before \ {old}
           /\ \A f \in Supplied(body) : HoldsSupplied(new, body, f)
           /\ \A f \in Columns \ changing : new[f] = old[f]

\* C13 as stated: update of an unknown id returns absence and leaves the
\* store unchanged; update of a known id changes exactly the fields the
\* partial input supplies and leaves every other field of the item and
\* every other item unchanged.
UpdateFrameAsStated ==
    [][(Answers("update_item") /\ resp'.status # 422) =>
          LET id == resp'.item_id
              body == resp'.body
          IN  IF ~Known(id)
              THEN resp'.status = 404 /\ items' = items
              ELSE /\ ChangesOnly(items, items', id, body, Supplied(body))
                   /\ resp'.items = <<RowIn(items', id)>>]_vars

\* C13 amended: update of an unknown id returns absence and leaves the
\* store unchanged; update of a known id with a null for title or
\* is_active fails and leaves the store unchanged; any other update of a
\* known id sets exactly the supplied fields, may advance updated_at, and
\* leaves every other field of the item and every other item unchanged.
UpdateFrame ==
    [][(Answers("update_item") /\ resp'.status # 422) =>
          LET id == resp'.item_id
              body == resp'.body
          IN  IF ~Known(id)
              THEN resp'.status = 404 /\ items' = items
              ELSE IF SuppliesNull(body)
              THEN resp'.status = 500 /\ items' = items
              ELSE /\ resp'.status = 200
                   /\ ChangesOnly(items, items', id, body,
                                  Supplied(body) \cup {"updated_at"})
                   /\ resp'.items = <<RowIn(items', id)>>
                   /\ RowIn(items', id).updated_at >= RowIn(items, id).updated_at
                   /\ next_id' = next_id]_vars

\* C13 witness: an update of the title alone has left the description and
\* is_active of the item as created, next to an untouched second item
UpdateFrameWitness ==
    /\ resp.op = "update_item" /\ resp.status = 200
    /\ Supplied(resp.body) = {"title"}
    /\ Cardinality(items) = 2
    /\ made[resp.item_id].input # None
    /\ LET row == StoredRow(resp.item_id)
           item_in == made[resp.item_id].input[1]
       IN  /\ row.title = <<"b">> /\ item_in.title = <<"a">>
           /\ row.description = Some(<<"b">>)
           /\ ~row.is_active
           /\ row.updated_at > row.created_at

\* C14: delete of an unknown id reports not found (false, 404), raises no
\* persistence error and leaves the store unchanged; delete of a known id
\* removes that row and no other and reports success (true, 204); and a get
\* of an id whose item was deleted finds nothing.
DeleteContract ==
    /\ [][Answers("delete_item") =>
             LET id == resp'.item_id
             IN  IF ~Known(id)
                 THEN resp'.status = 404 /\ items' = items
                 ELSE /\ resp'.status = 204
                      /\ items' = items \ {StoredRow(id)}
                      /\ ~KnownIn(items', id)]_vars
    /\ []((resp.op = "get" /\ made[resp.item_id].deleted) => resp.items = <<>>)

\* C14 witness: get finds nothing under the id of a deleted item while
\* another item is still stored
DeleteContractWitness ==
    /\ resp.op = "get"
    /\ made[resp.item_id].deleted
    /\ resp.items = <<>>
    /\ Cardinality(items) = 1

\* C15 as stated: once DELETE /items/{id} has answered 204, every GET
\* /items/{id} answers 404, whatever requests came before the delete.
DeletedStaysGone ==
    (resp.op = "read_item" /\ made[resp.item_id].deleted) => resp.status = 404

\* the ids of a table
IdsOf(table) == {r.id : r \in table}

\* C16: no two stored items share an id; an id stands for a stored item
\* exactly from the create that returned it until the delete of that id,
\* and is never handed out again; update keeps the ids of the table; and
\* across every step a row that keeps its id is the item that was created
\* under it (same created_at).
IdentityKept ==
    /\ [](\A a, b \in items : a.id = b.id => a = b)
    /\ [](\A id \in ItemIds : Known(id) <=> made[id].input # None)
    /\ [](\A r \in items : r.id < next_id)
    /\ [][Answers("update_item") => IdsOf(items') = IdsOf(items)]_vars
    /\ [][\A r \in items :
             KnownIn(items', r.id) =>
                 /\ RowIn(items', r.id).id = r.id
                 /\ RowIn(items', r.id).created_at = r.created_at]_vars

\* C16 witness: after an update of the title of item 2, items 1 and 2 are
\* both stored, each under its own id
IdentityKeptWitness ==
    /\ resp.op = "update_item" /\ resp.status = 200 /\ resp.item_id = 2
    /\ "title" \in Supplied(resp.body)
    /\ IdsOf(items) = {1, 2}
    /\ Cardinality(items) = 2
    /\ StoredRow(2).title = <<"b">>
    /\ made[1].touched

\* C17 as stated: a create or update request whose fields are malformed is
\* answered with a validation error before any access to the table, and a
\* request that passes validation never attempts to store a title that is
\* null, empty or longer than 255 characters.
ValidatedTitlesOnly ==
    /\ (resp.op \in {"create_item", "update_item"} /\ resp.status = 422) =>
            resp.db_reads = 0 /\ resp.wrote = <<>>
    /\ (resp.op \in {"create_item", "update_item"} /\ resp.status # 422) =>
            \A i \in 1..Len(resp.wrote) :
                /\ resp.wrote[i] # None
                /\ Len(resp.wrote[i][1]) >= 1
                /\ Len(resp.wrote[i][1]) <= 255

\* C18: paginate reads twice with no snapshot in between.  The items are
\* always the rows of the table as it is at the window query, while total
\* is the count taken at the count query: total differs from the number of
\* matching rows in the state the items were read from only when a write
\* committed between the two reads -- and then it can (the witness).
NoSnapshot ==
    ListOk =>
        /\ Rows(resp.result_seq) = Matching(resp.query, items)
        /\ resp.total # Cardinality(Matching(resp.query, items)) => resp.dirty

\* C18 witness: the only create ever made committed between the count query
\* (total 0) and the window query, which returned the new row: len(items)
\* = 1 > total = 0 = total_pages
NoSnapshotWitness ==
    /\ ListOk /\ resp.dirty
    /\ next_id = 2
    /\ Cardinality(items) = 1
    /\ resp.total = 0
    /\ Len(resp.items) = 1
    /\ resp.items[1] \in items

\* the held fields that have a value and name a field of Item
Qualifying(held) ==
    {i \in 1..Len(held) : held[i].value # None /\ held[i].name \in Columns}

\* C19 as stated: the generic filter adds one equality predicate for each
\* held field that has a value and is a field of the entity, skips every
\* other held field without error or predicate, and returns the statement
\* unchanged when no held field qualifies.
GenericFilterSkips ==
    resp.op = "FilterParams" =>
        LET held == resp.held
            q == Qualifying(held)
        IN  /\ resp.status = 200
            /\ Len(resp.query.where) = Cardinality(q)
            /\ \A i \in q :
                   \E k \in 1..Len(resp.query.where) :
                       /\ resp.query.where[k].kind = "eq"
                       /\ resp.query.where[k].col = held[i].name
                       /\ resp.query.where[k].value = held[i].value[1]
            /\ Rows(resp.result_seq) =
                   {r \in items : \A i \in q : r[held[i].name] = held[i].value[1]}
            /\ q = {} => resp.query = select

\* every websocket of the list start occurs exactly once in sent
SentOnceToEach(sent, start) ==
    \A k \in 1..Len(start) :
        Cardinality({i \in 1..Len(sent) : sent[i] = start[k]}) = 1

\* C20 as stated: the broadcast of every text message the endpoint receives
\* runs to its end and has then sent the message once to every websocket
\* that was in active_connections when the message was received, the sender
\* included; and a websocket is in active_connections exactly while its
\* handler is between its accepted connect and its disconnect.
ChatBroadcastsToAll ==
    /\ [][\A w \in Sockets :
             (chat[w].pc = "broadcast" /\ chat'[w].pc # "broadcast") =>
                 /\ chat'[w].pc = "receive"
                 /\ SentOnceToEach(chat[w].sent_to, chat[w].at_start)]_vars
    /\ [](\A w \in Sockets :
             InList(active_connections, w)
                 <=> chat[w].pc \in {"join", "receive", "broadcast"})

----------------------------------------------------------------------------
(* The files endpoints.                                                    *)

\* the upload request has been answered 201
Stored(h) == h.pc = "done" /\ h.status = 201

\* the path is the one the claim names for the filename: that of the
\* filename if no file is there, else that of name_N.ext for the smallest
\* N >= 1 no file is at
NamedPath(files, filename, file_path) ==
    IF ~Exists(files, PathOf(filename)) THEN file_path = PathOf(filename)
    ELSE \E n \in 1..(MaxUploads + 1) :
            /\ file_path = PathOf(Suffixed(filename, n))
            /\ ~Exists(files, file_path)
            /\ \A m \in 1..(n - 1) : Exists(files, PathOf(Suffixed(filename, m)))

\* C21: upload_file never overwrites a file that is in the upload
\* directory: the path it chooses is that of the original name if unused,
\* else that of name_N.ext for the smallest unused N >= 1; and however
\* uploads of one filename interleave, the successful ones whose files
\* have not been deleted have returned distinct filenames, and the file of
\* each holds the content that upload sent.
UploadNeverOverwrites ==
    /\ [][\A u \in Uploads :
              (up[u].pc = "new" /\ up'[u].pc = "open") =>
                  NamedPath(disk, up'[u].sent, up'[u].path)]_vars
    /\ [](\A u \in Uploads :
              (Stored(up[u]) /\ up[u].live) =>
                  /\ disk[up[u].path] = Some(up[u].body.bytes)
                  /\ \A v \in Uploads \ {u} :
                        (Stored(up[v]) /\ up[v].live /\ up[v].sent = up[u].sent)
                            => up[v].filename # up[u].filename)

\* C22: every file upload, download and delete write, read or remove is
\* inside the upload directory: no upload request holds or has stored a
\* file outside it, no response comes from an access outside it, and no
\* file appears outside it.
StaysInsideUploadDir ==
    /\ \A u \in Uploads :
          (up[u].pc = "write" \/ Stored(up[u])) => RelativeToUploadDir(up[u].path)
    /\ file_resp.touched # None => RelativeToUploadDir(file_resp.touched[1])
    /\ \A l \in Locations : ~RelativeToUploadDir(l) => disk[l] = None

\* the upload requests that have stored a file, not deleted since, and
\* returned the filename for it
Holders(filename) ==
    {u \in Uploads : Stored(up[u]) /\ up[u].live /\ up[u].filename = filename}

\* an upload is on its way to a file of that name
Arriving(filename) ==
    \E u \in Uploads :
        up[u].pc \in {"open", "write"} /\ PathName(up[u].path) = filename

\* C23: a download under the filename a successful upload returned answers
\* 200 with exactly the bytes uploaded, as long as the file has not been
\* deleted; download and delete of a filename no upload has stored a file
\* under, or whose file has been deleted (204) since, answer 404.
DownloadReturnsUpload ==
    [][(file_resp.op = "none" /\ file_resp'.op # "none") =>
          LET f == file_resp'.filename
          IN  /\ (Holders(f) # {} /\ file_resp'.op = "download_file") =>
                     /\ file_resp'.status = 200
                     /\ \A u \in Holders(f) :
                           file_resp'.content = up[u].body.bytes
              /\ (Holders(f) = {} /\ ~Arriving(f)) => file_resp'.status = 404]_vars

----------------------------------------------------------------------------
(* The pages router.                                                       *)

\* the form is one the claim says is accepted
Acceptable(form) ==
    /\ Len(form.name) \in 1..NameMaxLength
    /\ Len(form.message) \in 1..MessageMaxLength
    /\ Len(form.email) <= EmailMaxLength
    /\ re_match(form.email)

\* C24: contact_submit answers 200 with the success view exactly when name
\* has 1..100 characters, message 1..1000, and email at most 255 and
\* matches the pattern, the email echoed in lower case; in every other
\* case it answers 422 with validation errors and the name, email and
\* message as submitted.
ContactFormContract ==
    page_resp.op = "contact_submit" =>
        IF Acceptable(page_resp.sent)
        THEN /\ page_resp.status = 200
             /\ page_resp.success
             /\ page_resp.errors = {}
             /\ page_resp.submitted_data =
                    Some([page_resp.sent EXCEPT !.email = Lower(@)])
        ELSE /\ page_resp.status = 422
             /\ ~page_resp.success
             /\ page_resp.errors # {}
             /\ page_resp.form_data = Some(page_resp.sent)

\* an accepted form whose email had upper-case letters
ContactFormContractWitness ==
    /\ page_resp.op = "contact_submit"
    /\ page_resp.status = 200
    /\ page_resp.submitted_data[1].email # page_resp.sent.email
    /\ Len(page_resp.sent.name) = NameMaxLength

----------------------------------------------------------------------------
(* The chat endpoint under connects and disconnects.                       *)

\* number of times the element occurs in the sequence
Occurrences(seq, element) ==
    Cardinality({i \in 1..Len(seq) : seq[i] = element})

\* the text messages: the n-th text of the client of websocket w is <<w, n>>
Messages == Sockets \X (1..MaxTexts)

\* C25: while other clients connect or disconnect, a broadcast of a text
\* message that runs to its end has sent the message exactly once to every
\* websocket that was in active_connections from its start to its end.
BroadcastSkipsNobody ==
    [][\A w \in Sockets :
          (chat[w].pc = "broadcast" /\ chat'[w].pc = "receive") =>
              \A c \in Sockets :
                  (InList(chat[w].at_start, c) /\ InList(active_connections, c))
                      => Occurrences(chat[w].sent_to, c) = 1]_vars

\* C26: a handler that has ended, by a disconnect or by an error raised
\* while joining, receiving or broadcasting, has its websocket out of
\* active_connections, so that the list holds only websockets whose handler
\* runs; and a handler that leaves its receive loop for the except clause
\* finds its websocket in the list.
EndedHandlersAreRemoved ==
    /\ [](\A w \in Sockets :
              chat[w].pc \in {"new", "done"} => ~InList(active_connections, w))
    /\ [][\A w \in Sockets :
              (chat[w].pc \in {"receive", "broadcast"}
                  /\ chat'[w].pc \in {"leave", "done"}
                  /\ active_connections' # active_connections)
                      => InList(active_connections, w)]_vars

\* the client of c has received the message of a before that of b
Earlier(c, a, b) ==
    \E i, j \in 1..Len(inbox[c]) :
        i < j /\ inbox[c][i] = a /\ inbox[c][j] = b

\* C27: the broadcast orders nothing across clients.  What a client holds
\* grows only at its end, by the message of a handler that is in its
\* broadcast loop, each message at most once: the order a client sees is
\* the order in which the loops reach it, and two clients connected
\* throughout can see two messages in opposite orders (the witness).
NoCrossClientOrder ==
    /\ [](\A c \in Sockets, m \in Messages : Occurrences(inbox[c], m) <= 1)
    /\ [][\A c \in Sockets :
              \/ inbox'[c] = inbox[c]
              \/ inbox'[c] = <<>> /\ peer'[c] = "gone"
              \/ \E w \in Sockets :
                    /\ chat[w].pc = "broadcast"
                    /\ inbox'[c] = Append(inbox[c], <<w, chat[w].texts>>)]_vars

\* C27 witness: two clients, connected since before either message was
\* sent, hold the messages of two different senders in opposite orders
NoCrossClientOrderWitness ==
    \E c, d \in Sockets, a, b \in Messages :
        /\ c # d /\ a[1] # b[1]
        /\ peer[c] = "open" /\ peer[d] = "open"
        /\ InList(active_connections, c) /\ InList(active_connections, d)
        /\ Earlier(c, a, b)
        /\ Earlier(d, b, a)

----------------------------------------------------------------------------
(* Concurrent deletes.                                                     *)

\* the sessions whose delete(id) has ended with the result
EndedWith(id, result) ==
    {s \in Sessions :
        deleting[s].pc = "done" /\ deleting[s].item_id = id
            /\ deleting[s].result = result}

\* C28: of the delete(id) calls that run side by side for one existing id,
\* exactly one returns true and every other returns false; none raises a
\* persistence error.
OneDeleteWins ==
    \A id \in ItemIds :
        /\ Cardinality(EndedWith(id, "True")) <= 1
        /\ EndedWith(id, "StaleDataError") = {}
        /\ (EndedWith(id, "True") # {}) <=> made[id].deleted

----------------------------------------------------------------------------
(* Reading the whole list.                                                 *)

\* C29: for a table, filters, sort and page size that stay as they are,
\* the pages 1..total_pages of the list together hold every matching item
\* exactly once, also when rows are equal in the sort key or no ordering
\* applies.
PagesCoverOnce ==
    walk.pc = "done" =>
        /\ Rows(walk.seen) = Matching(read_items_query(walk.args), items)
        /\ Len(walk.seen) = Cardinality(Rows(walk.seen))

----------------------------------------------------------------------------
(* The home page.                                                          *)

\* C30: index() hands the template at most 5 items, all the items when the
\* table holds fewer than 5, and they are the most recent ones: no item
\* left out was created after an item shown.
HomeShowsMostRecent ==
    page_resp.op = "index" =>
        /\ Len(page_resp.items) = Min(HomeItems, Cardinality(items))
        /\ Rows(page_resp.items) \subseteq items
        /\ \A shown \in Rows(page_resp.items) :
              \A left \in items \ Rows(page_resp.items) :
                  shown.created_at >= left.created_at

====
